---- MODULE Spec2Model ----
(***************************************************************************)
(* Calculation Registry + State Model + Projection Engine + Trace Log of   *)
(* the financial-planning calculation layer.                               *)
(*                                                                         *)
(* Python objects live in `heap` (address = index), so that aliasing       *)
(* between the caller's base_state, the projection's working state and the *)
(* emitted YearSnapshots is explicit.  Decimal amounts are integers        *)
(* counting 1/1000 of a cent; rates are integers per mille.                *)
(*                                                                         *)
(* Five specifications share the variables:                                *)
(*   Spec      one run of ProjectionEngine.project_scenario, one step per  *)
(*             run_calculation call, followed by the caller mutating the   *)
(*             returned snapshots;                                         *)
(*   SpecCalc  a caller invoking registered handlers directly, in any      *)
(*             order, on a state it owns;                                  *)
(*   SpecReg   a client of the Calculation Registry registering, looking   *)
(*             up, running and listing calculations;                       *)
(*   SpecPair  two runs of run_projection on CalculationStates of their    *)
(*             own, interleaved between any two steps;                     *)
(*   SpecFn    _calculate_progressive_tax and _calculate_lito applied to   *)
(*             incomes under the rules a rule file can supply.             *)
(***************************************************************************)
EXTENDS Integers, Sequences, FiniteSets, TLC

VARIABLES
    heap,                 \* Python object store: address -> object
    base_state,           \* address of the caller's CalculationState
    base_before,          \* value of base_state when the caller handed it over
    projection_years,     \* argument of project_scenario
    year_index,           \* loop variable of project_scenario
    current_state,        \* address of the working CalculationState (0: none yet)
    timeline,             \* list of YearSnapshot (fields hold addresses)
    pc,                   \* position of the running code
    entity_idx,           \* position of the entity loop in flows.keys()
    chain_idx,            \* position inside the tax / super chain
    rule_loader,          \* the Rule Provider (module-level singleton)
    CALCULATION_REGISTRY, \* dispatch table: cal_id -> handler name
    call,                 \* the handler call made by the last step, if any
    ncalls,               \* number of handler calls made so far
    registry_op,          \* the registry operation made by the last step, if any
    registered,           \* the dict get_registered_calculations gave its caller
    active,               \* which projection run the thread-local variables belong to
    parked                \* thread-local variables of the run that is not running

\* what a client of the registry holds
client_vars == <<registry_op, registered>>

\* which run is on the processor, and the context of the other one
scheduler_vars == <<active, parked>>

vars == <<heap, base_state, base_before, projection_years, year_index,
          current_state, timeline, pc, entity_idx, chain_idx, rule_loader,
          CALCULATION_REGISTRY, call, ncalls, registry_op, registered, active, parked>>

-----------------------------------------------------------------------------
(* Bounds of the model *)

\* project_scenario is called with projection_years in 0..MaxYears
MaxYears == 2

\* a SpecCalc session makes at most MaxCalls direct handler calls
MaxCalls == 2

-----------------------------------------------------------------------------
(* Decimal arithmetic *)

\* rates are integers per mille: 0.19 is 190
RateDen == 10 * 100

\* amounts count 1/1000 cent, so amount * rate is exact for cent amounts
Cent == RateDen

Dollars(d, c) == (d * 100 + c) * Cent

\* Decimal("0")
Zero == Dollars(0, 0)

\* Decimal a * rate r (r per mille); computed in two parts to stay in range
DecMul(a, r) == (a \div RateDen) * r + ((a % RateDen) * r) \div RateDen

\* Decimal a / rate r
DecDiv(a, r) == (a * RateDen) \div r

\* x.quantize(Decimal('0.01')) under the default context (ROUND_HALF_EVEN)
quantize_cent(x) ==
    LET q == x \div Cent
        r == x % Cent
    IN  IF 2 * r < Cent THEN q * Cent
        ELSE IF 2 * r > Cent THEN (q + 1) * Cent
        ELSE IF q % 2 = 0 THEN q * Cent ELSE (q + 1) * Cent

Max2(a, b) == IF a >= b THEN a ELSE b

Min2(a, b) == IF a <= b THEN a ELSE b

-----------------------------------------------------------------------------
(* Python values *)

\* Optional values: None is the empty tuple, a present value v is <<v>>
None == <<>>

Some(v) == <<v>>

\* {} : the empty dict
EmptyDict == <<>>

\* d[k] = v on a dict
DictSet(d, k, v) == (k :> v) @@ d

\* d.get(k, default)
DictGet(d, k, default) == IF k \in DOMAIN d THEN d[k] ELSE default

\* `name in model` for a pydantic BaseModel: the model has no __contains__,
\* so Python iterates it; iteration yields (field_name, value) tuples, none of
\* which equals the string `name`
PydanticContains(model, name) ==
    \E f \in DOMAIN model : <<f, model[f]>> = <<name>>

\* the fields a pydantic model declares; getattr / setattr of another name raises
HasField(model, name) == name \in DOMAIN model

-----------------------------------------------------------------------------
(* Rule Provider *)

\* the constants the rule files supply; the bracket list is kept in file order
RuleValues ==
    [ brackets |->
        << [min |-> Dollars(450, 0), max |-> None, rate |-> 325],
           [min |-> Dollars(0, 0), max |-> Some(Dollars(182, 0)), rate |-> 0],
           [min |-> Dollars(182, 0), max |-> Some(Dollars(450, 0)), rate |-> 190] >>,
      medicare_levy_rate |-> 20,
      medicare_levy_thresholds |-> [single |-> Dollars(240, 0)],
      lito_parameters |->
        [max_offset |-> Dollars(7, 0), income_limit |-> Dollars(375, 0),
         phase_out_start |-> Dollars(375, 0), phase_out_end |-> Dollars(675, 0),
         phase_out_rate |-> 50],
      concessional_cap |-> Dollars(110, 0),
      contributions_tax_rate |-> 150,
      division_293_threshold |-> Dollars(400, 0),
      division_293_rate |-> 150,
      individual_discount_rate |-> 500,
      marginal_tax_rate |-> 320 ]

\* RuleLoader with its rule files present, or missing (load_rules then raises
\* FileNotFoundError on every lookup)
RuleLoaders ==
    { [available |-> a, rules |-> RuleValues] : a \in BOOLEAN }

\* str(e) of the FileNotFoundError of RuleLoader._find_config_file
FileNotFoundMessage == <<"Configuration file not found">>

-----------------------------------------------------------------------------
(* State Model *)

\* the fields of EntityCashflow the core reads (all Decimal, default 0)
EntityCashflow(id, salary) ==
    [ entity_id |-> id,
      salary_wages_gross |-> salary,
      salary_sacrifice_super |-> Zero,
      personal_super_contributions |-> Zero,
      employer_super_guarantee |-> Zero ]

\* CalculatedIntermediariesContext(): every field from its default factory
CalculatedIntermediariesContext ==
    [ tax_results |-> EmptyDict,
      super_results |-> EmptyDict,
      property_results |-> EmptyDict,
      plan_level_results |-> EmptyDict,
      trace_log |-> <<>> ]

\* TraceEntry(calc_id, entity_id, field, explanation, metadata); the
\* explanation is a formatting of values that metadata already holds and is
\* not carried
TraceEntry(calc_id, entity_id, field, metadata) ==
    [ calc_id |-> calc_id, entity_id |-> entity_id, field |-> field,
      metadata |-> metadata ]

\* CalculationResult(success, value, trace_entries, error_message)
CalculationResult(success, value, trace_entries, error_message) ==
    [ success |-> success, value |-> value, trace_entries |-> trace_entries,
      error_message |-> error_message ]

\* cashflow_context.flows is a dict in insertion order: a list of <<key, value>>
FlowKeys(flows) == [i \in 1..Len(flows) |-> flows[i][1]]

FlowsHas(flows, k) == \E i \in 1..Len(flows) : flows[i][1] = k

FlowsGet(flows, k) ==
    flows[CHOOSE i \in 1..Len(flows) : flows[i][1] = k][2]

-----------------------------------------------------------------------------
(* Inputs a caller supplies *)

EntityIds == {"e1", "e2"}

\* entity_id arguments of direct calls: the entities and one that has no cashflow
EntityArgs == EntityIds \cup {"ghost"}

FlowsInputs ==
    { << <<"e1", EntityCashflow("e1", Dollars(500, 0))>>,
         <<"e2", EntityCashflow("e2", Dollars(123, 45))>> >>,
      << <<"e2", EntityCashflow("e2", Dollars(0, 0))>> >>,
      \* a salary of 100.005: Decimal fields take any number of places
      << <<"e1", EntityCashflow("e1", Dollars(100, 0) + Cent \div 2)>> >> }

GlobalInputs ==
    { [ financial_year |-> 2025, inflation_rate |-> r[1],
        wage_growth_rate |-> r[2], property_growth_rate |-> 40,
        equity_return_rate |-> 70, fixed_income_return_rate |-> 30 ]
      : r \in { <<0, 0>>, <<30, 0>>, <<25, 35>> } }

EntityInput == [people |-> EntityIds]

PositionInput == [assets |-> [home |-> Dollars(900, 0)]]

\* intermediates of the state handed over by the caller: fresh, or holding
\* upstream values and a trace entry from earlier work
IntermediatesInputs ==
    { CalculatedIntermediariesContext,
      [ CalculatedIntermediariesContext EXCEPT
          !.tax_results = DictSet(EmptyDict, "e1",
                              DictSet(EmptyDict, "taxable_income", Dollars(500, 0))),
          !.trace_log = << TraceEntry("CALLER", "e1", "taxable_income",
                                      [source |-> "upstream"]) >> ],
      [ CalculatedIntermediariesContext EXCEPT
          !.tax_results = DictSet(EmptyDict, "ghost", EmptyDict) ] }

-----------------------------------------------------------------------------
(* Object store *)

\* a CalculationState object holds the addresses of its five contexts
ContextFields ==
    {"global_context", "entity_context", "position_context", "cashflow_context",
     "intermediates"}

\* the value reachable from the CalculationState at address s
Deref(h, s) == [f \in ContextFields |-> h[h[s][f]]]

\* write the value v of a CalculationState back through the addresses s holds
Store(h, s, v) ==
    [a \in 1..Len(h) |->
        IF \E f \in ContextFields : h[s][f] = a
        THEN v[CHOOSE f \in ContextFields : h[s][f] = a]
        ELSE h[a]]

\* a heap holding one CalculationState built from the caller's inputs
NewState(g, e, p, c, i) ==
    << g, e, p, c, i,
       [ global_context |-> 1, entity_context |-> 2, position_context |-> 3,
         cashflow_context |-> 4, intermediates |-> 5 ] >>

\* a cell of the store that holds no object
Free == [free |-> TRUE]

\* addresses set aside for a CalculationState at the bottom of the store and
\* all that is copied from it; a second, separate CalculationState and its
\* copies lie above them (one run creates at most 6 * (MaxYears + 1) + MaxYears
\* + 7 objects)
ArenaSize == 6 * (2 * MaxYears + 4)

\* the address before the first one the allocator hands out for a copy of, or a
\* part for, the state object at address s: the last object of s's arena
LastUsed(h, s) ==
    IF s > ArenaSize \/ Len(h) <= ArenaSize THEN Len(h)
    ELSE CHOOSE a \in 1..ArenaSize :
            /\ h[a] # Free
            /\ \A b \in (a + 1)..ArenaSize : h[b] = Free

\* the store with the new objects objs at addresses n + 1 .. n + Len(objs)
Place(h, n, objs) ==
    IF n = Len(h) THEN h \o objs
    ELSE IF n > Len(h) THEN h \o [a \in 1..(n - Len(h)) |-> Free] \o objs
    ELSE SubSeq(h, 1, n) \o objs \o SubSeq(h, n + Len(objs) + 1, Len(h))

\* model_copy() without deep=True: a new CalculationState sharing every context
model_copy_shallow(h, s) ==
    [ heap |-> Place(h, LastUsed(h, s), <<h[s]>>), ref |-> LastUsed(h, s) + 1 ]

\* state.model_copy(deep=True): copy.deepcopy of the state and all it reaches
model_copy_deep(h, s) ==
    LET n == LastUsed(h, s)
    IN  [ heap |-> Place(h, n,
                         << h[h[s].global_context], h[h[s].entity_context],
                            h[h[s].position_context], h[h[s].cashflow_context],
                            h[h[s].intermediates],
                            [ global_context |-> n + 1, entity_context |-> n + 2,
                              position_context |-> n + 3, cashflow_context |-> n + 4,
                              intermediates |-> n + 5 ] >>),
          ref |-> n + 6 ]

-----------------------------------------------------------------------------
(* Outcome of a handler body: it returns, or an exception leaves it *)

Return(state, result) == [raised |-> FALSE, state |-> state, result |-> result]

\* exc is str(e), as the pieces the message is built from
Raise(state, exc) == [raised |-> TRUE, state |-> state, exc |-> exc]

\* CalculationResult(success=False, value=None, trace_entries=[], error_message=...)
Failure(error_message) == CalculationResult(FALSE, None, <<>>, error_message)

\* a handler whose except clause is missing: the exception reaches the caller
ExceptNothing(cal_id, body) == body

\* try: <body> except Exception as e: return the failure "Error in <cal_id>: <e>"
ExceptException(cal_id, body) ==
    IF body.raised
    THEN Return(body.state, Failure(<<"Error in", cal_id, ":">> \o body.exc))
    ELSE body

\* str(e) of the errors Python raises inside the handlers
KeyErrorMessage(k) == <<k>>

AttributeErrorMessage(cls, name) == <<cls, "object has no attribute", name>>

NoFieldMessage(cls, name) == <<cls, "object has no field", name>>

-----------------------------------------------------------------------------
(* Personal income tax: CAL-PIT-001, -002, -004, -005 *)

\* the list is scanned in the order the rule file gives it
FileOrder(brackets) == brackets

\* sorted(tax_brackets, key=min): stable insertion of b into a sorted list
RECURSIVE InsertByMin(_, _)
InsertByMin(b, sorted) ==
    IF sorted = <<>> THEN <<b>>
    ELSE IF b.min < Head(sorted).min THEN <<b>> \o sorted
    ELSE <<Head(sorted)>> \o InsertByMin(b, Tail(sorted))

RECURSIVE SortedByMin(_)
SortedByMin(brackets) ==
    IF brackets = <<>> THEN <<>>
    ELSE InsertByMin(brackets[Len(brackets)],
                     SortedByMin(SubSeq(brackets, 1, Len(brackets) - 1)))

\* the loop over the sorted brackets, from bracket i on
RECURSIVE ProgressiveLoop(_, _, _, _)
ProgressiveLoop(brackets, i, total_tax, remaining_income) ==
    IF i > Len(brackets) \/ remaining_income <= 0 THEN total_tax
    ELSE LET b == brackets[i]
             unbounded == b.max = None \/ b.max[1] = 0
             taxable_in_bracket ==
                 IF unbounded THEN remaining_income
                 ELSE Min2(remaining_income, b.max[1] - b.min)
         IN  ProgressiveLoop(brackets, i + 1,
                             total_tax + DecMul(taxable_in_bracket, b.rate),
                             remaining_income - taxable_in_bracket)

_calculate_progressive_tax(taxable_income, tax_brackets) ==
    IF tax_brackets = <<>> THEN Zero
    ELSE ProgressiveLoop(SortedByMin(tax_brackets), 1, Zero, taxable_income)

\* a handler that also caches its working figure on the cashflow record
try_CAL_PIT_001_caching(state, entity_id, yi) ==
    LET flows == state.cashflow_context.flows
    IN  IF ~FlowsHas(flows, entity_id)
        THEN Return(state, Failure(<<"Entity", entity_id, "not found in cashflow context">>))
        ELSE
        LET cashflow == FlowsGet(flows, entity_id)
            taxable_income == cashflow.salary_wages_gross - Zero
        IN  IF ~rule_loader.available THEN Raise(state, FileNotFoundMessage)
            ELSE
            LET tax_payable ==
                    _calculate_progressive_tax(taxable_income, rule_loader.rules.brackets)
                trace_entry ==
                    TraceEntry("CAL-PIT-001", entity_id, "tax_payable",
                               [taxable_income |-> taxable_income])
                new_flows ==
                    [i \in 1..Len(flows) |->
                        IF flows[i][1] = entity_id
                        THEN <<entity_id,
                               [cashflow EXCEPT !.salary_wages_gross = taxable_income - tax_payable]>>
                        ELSE flows[i]]
            IN  Return([state EXCEPT
                            !.cashflow_context.flows = new_flows,
                            !.intermediates.trace_log = Append(@, trace_entry)],
                       CalculationResult(TRUE, Some(tax_payable), <<trace_entry>>, None))

\* a handler that adds to the stored figure instead of replacing it
try_CAL_PIT_001_accumulating(state, entity_id, yi) ==
    LET flows == state.cashflow_context.flows
    IN  IF ~FlowsHas(flows, entity_id)
        THEN Return(state, Failure(<<"Entity", entity_id, "not found in cashflow context">>))
        ELSE
        LET cashflow == FlowsGet(flows, entity_id)
            taxable_income == cashflow.salary_wages_gross - Zero
        IN  IF ~rule_loader.available THEN Raise(state, FileNotFoundMessage)
            ELSE
            LET tax_brackets == rule_loader.rules.brackets
                tax_payable == _calculate_progressive_tax(taxable_income, tax_brackets)
                trace_entry ==
                    TraceEntry("CAL-PIT-001", entity_id, "tax_payable",
                               [ assessable_income |-> taxable_income,
                                 deductions |-> Zero,
                                 taxable_income |-> taxable_income,
                                 tax_brackets_applied |-> Len(tax_brackets) ])
                tr0 == state.intermediates.tax_results
                tr1 == IF entity_id \notin DOMAIN tr0
                       THEN DictSet(tr0, entity_id, EmptyDict) ELSE tr0
                tr2 == DictSet(tr1, entity_id,
                               DictSet(tr1[entity_id], "payg_tax",
                                       DictGet(tr1[entity_id], "payg_tax", Zero)
                                           + tax_payable))
            IN  Return([state EXCEPT
                            !.intermediates.tax_results = tr2,
                            !.intermediates.trace_log = Append(@, trace_entry)],
                       CalculationResult(TRUE, Some(tax_payable), <<trace_entry>>, None))

try_CAL_PIT_001(state, entity_id, yi) ==
    LET flows == state.cashflow_context.flows
    IN  IF ~FlowsHas(flows, entity_id)
        THEN Return(state, Failure(<<"Entity", entity_id, "not found in cashflow context">>))
        ELSE
        LET cashflow == FlowsGet(flows, entity_id)
            assessable_income == cashflow.salary_wages_gross
            deductions == Zero
            taxable_income == assessable_income - deductions
        IN  IF ~rule_loader.available THEN Raise(state, FileNotFoundMessage)
            ELSE
            LET tax_brackets == rule_loader.rules.brackets
                tax_payable == _calculate_progressive_tax(taxable_income, tax_brackets)
                trace_entry ==
                    TraceEntry("CAL-PIT-001", entity_id, "tax_payable",
                               [ assessable_income |-> assessable_income,
                                 deductions |-> deductions,
                                 taxable_income |-> taxable_income,
                                 tax_brackets_applied |-> Len(tax_brackets) ])
                tr0 == state.intermediates.tax_results
                tr1 == IF entity_id \notin DOMAIN tr0
                       THEN DictSet(tr0, entity_id, EmptyDict) ELSE tr0
                tr2 == DictSet(tr1, entity_id,
                               DictSet(tr1[entity_id], "payg_tax", tax_payable))
            IN  Return([state EXCEPT
                            !.intermediates.tax_results = tr2,
                            !.intermediates.trace_log = Append(@, trace_entry)],
                       CalculationResult(TRUE, Some(tax_payable), <<trace_entry>>, None))

run_CAL_PIT_001(state, entity_id, yi) ==
    ExceptException("CAL-PIT-001", try_CAL_PIT_001(state, entity_id, yi))

\* the prerequisite test with its second half dropped
HasTaxResultsEntry(state, entity_id) ==
    entity_id \in DOMAIN state.intermediates.tax_results

\* entity_id in tax_results and "taxable_income" in tax_results[entity_id]
HasTaxableIncome(state, entity_id) ==
    /\ entity_id \in DOMAIN state.intermediates.tax_results
    /\ "taxable_income" \in DOMAIN state.intermediates.tax_results[entity_id]

\* the failure both CAL-PIT-002 and CAL-PIT-004 return for a missing prerequisite
TaxableIncomeMissing(entity_id) ==
    Failure(<<"Taxable income not available for entity", entity_id,
              ". Run", "CAL-PIT-001", "first.">>)

try_CAL_PIT_002(state, entity_id, yi) ==
    LET tax_results == state.intermediates.tax_results
    IN  IF ~HasTaxableIncome(state, entity_id)
        THEN Return(state, TaxableIncomeMissing(entity_id))
        ELSE IF "taxable_income" \notin DOMAIN tax_results[entity_id]
        THEN Raise(state, KeyErrorMessage("taxable_income"))
        ELSE IF ~rule_loader.available THEN Raise(state, FileNotFoundMessage)
        ELSE
        LET taxable_income == tax_results[entity_id]["taxable_income"]
            medicare_rate == rule_loader.rules.medicare_levy_rate
            thresholds == rule_loader.rules.medicare_levy_thresholds
            threshold == DictGet(thresholds, "single", Zero)
            medicare_levy ==
                IF taxable_income > threshold
                THEN DecMul(taxable_income - threshold, medicare_rate)
                ELSE Zero
            trace_entry ==
                TraceEntry("CAL-PIT-002", entity_id, "medicare_levy",
                           [ taxable_income |-> taxable_income,
                             threshold |-> threshold,
                             rate |-> medicare_rate,
                             levy_payable |-> medicare_levy ])
        IN  Return([state EXCEPT
                        !.intermediates.tax_results =
                            DictSet(@, entity_id,
                                    DictSet(@[entity_id], "medicare_levy", medicare_levy)),
                        !.intermediates.trace_log = Append(@, trace_entry)],
                   CalculationResult(TRUE, Some(medicare_levy), <<trace_entry>>, None))

run_CAL_PIT_002(state, entity_id, yi) ==
    ExceptException("CAL-PIT-002", try_CAL_PIT_002(state, entity_id, yi))

\* _calculate_lito divides by phase_out_rate once the income is over the limit
LitoDividesByZero(taxable_income, lito_params) ==
    /\ taxable_income > lito_params.income_limit
    /\ lito_params.phase_out_rate = 0

_calculate_lito(taxable_income, lito_params) ==
    LET max_offset == lito_params.max_offset
        income_limit == lito_params.income_limit
        phase_out_start == lito_params.phase_out_start
        phase_out_rate == lito_params.phase_out_rate
    IN  IF taxable_income <= income_limit THEN max_offset
        ELSE IF taxable_income <= phase_out_start + DecDiv(max_offset, phase_out_rate)
        THEN LET excess == taxable_income - phase_out_start
                 reduction == DecMul(excess, phase_out_rate)
             IN  Max2(Zero, max_offset - reduction)
        ELSE Zero

try_CAL_PIT_004(state, entity_id, yi) ==
    LET tax_results == state.intermediates.tax_results
    IN  IF ~HasTaxableIncome(state, entity_id)
        THEN Return(state, TaxableIncomeMissing(entity_id))
        ELSE IF "taxable_income" \notin DOMAIN tax_results[entity_id]
        THEN Raise(state, KeyErrorMessage("taxable_income"))
        ELSE IF ~rule_loader.available THEN Raise(state, FileNotFoundMessage)
        ELSE IF LitoDividesByZero(tax_results[entity_id]["taxable_income"],
                                  rule_loader.rules.lito_parameters)
        THEN Raise(state, <<"division by zero">>)
        ELSE
        LET taxable_income == tax_results[entity_id]["taxable_income"]
            lito_amount == _calculate_lito(taxable_income, rule_loader.rules.lito_parameters)
            total_offsets == lito_amount
            trace_entry ==
                TraceEntry("CAL-PIT-004", entity_id, "tax_offsets",
                           [ lito_amount |-> lito_amount,
                             total_offsets |-> total_offsets,
                             taxable_income |-> taxable_income ])
        IN  Return([state EXCEPT
                        !.intermediates.tax_results =
                            DictSet(@, entity_id,
                                    DictSet(@[entity_id], "tax_offsets", total_offsets)),
                        !.intermediates.trace_log = Append(@, trace_entry)],
                   CalculationResult(TRUE, Some(total_offsets), <<trace_entry>>, None))

run_CAL_PIT_004(state, entity_id, yi) ==
    ExceptException("CAL-PIT-004", try_CAL_PIT_004(state, entity_id, yi))

\* a handler that opens its result slot first and then fails on the cashflow
try_CAL_PIT_005_partial(state, entity_id, yi) ==
    Raise([state EXCEPT
              !.intermediates.tax_results =
                  DictSet(@, entity_id,
                          DictSet(DictGet(@, entity_id, EmptyDict),
                                  "net_tax_payable", Zero))],
          AttributeErrorMessage("EntityCashflow", "payg_withheld"))

try_CAL_PIT_005(state, entity_id, yi) ==
    LET tax_results == DictGet(state.intermediates.tax_results, entity_id, EmptyDict)
        payg_tax == DictGet(tax_results, "payg_tax", Zero)
        medicare_levy == DictGet(tax_results, "medicare_levy", Zero)
        tax_offsets == DictGet(tax_results, "tax_offsets", Zero)
        flows == state.cashflow_context.flows
        has_cashflow == FlowsHas(flows, entity_id)
    IN  IF has_cashflow /\ ~HasField(FlowsGet(flows, entity_id), "payg_withheld")
        THEN Raise(state, AttributeErrorMessage("EntityCashflow", "payg_withheld"))
        ELSE
        LET payg_withheld ==
                IF has_cashflow THEN FlowsGet(flows, entity_id).payg_withheld ELSE Zero
            gross_tax == payg_tax + medicare_levy
            net_tax_before_withheld == gross_tax - tax_offsets
            net_tax_payable == net_tax_before_withheld - payg_withheld
            is_refund == net_tax_payable < 0
            trace_entry ==
                TraceEntry("CAL-PIT-005", entity_id, "net_tax_payable",
                           [ gross_tax |-> gross_tax,
                             tax_offsets |-> tax_offsets,
                             payg_withheld |-> payg_withheld,
                             net_tax_before_withheld |-> net_tax_before_withheld,
                             final_position |-> net_tax_payable,
                             is_refund |-> is_refund ])
        IN  IF entity_id \notin DOMAIN state.intermediates.tax_results
            THEN Raise(state, KeyErrorMessage(entity_id))
            ELSE Return([state EXCEPT
                            !.intermediates.tax_results =
                                DictSet(@, entity_id,
                                        DictSet(@[entity_id], "net_tax_payable",
                                                net_tax_payable)),
                            !.intermediates.trace_log = Append(@, trace_entry)],
                        CalculationResult(TRUE, Some(net_tax_payable), <<trace_entry>>, None))

run_CAL_PIT_005(state, entity_id, yi) ==
    ExceptException("CAL-PIT-005", try_CAL_PIT_005(state, entity_id, yi))

-----------------------------------------------------------------------------
(* Superannuation: CAL-SUP-002, -003, -007, -008, -009 *)

try_CAL_SUP_002(state, entity_id, yi) ==
    LET flows == state.cashflow_context.flows
    IN  IF ~FlowsHas(flows, entity_id)
        THEN Return(state, Failure(<<"Cashflow not found for entity", entity_id>>))
        ELSE
        LET cashflow == FlowsGet(flows, entity_id)
        IN  IF ~HasField(cashflow, "super_employer_sg")
            THEN Raise(state, AttributeErrorMessage("EntityCashflow", "super_employer_sg"))
            ELSE IF ~HasField(cashflow, "super_salary_sacrifice")
            THEN Raise(state, AttributeErrorMessage("EntityCashflow", "super_salary_sacrifice"))
            ELSE IF ~HasField(cashflow, "super_personal_deductible")
            THEN Raise(state, AttributeErrorMessage("EntityCashflow", "super_personal_deductible"))
            ELSE
            LET employer_sg == cashflow.super_employer_sg
                salary_sacrifice == cashflow.super_salary_sacrifice
                personal_deductible == cashflow.super_personal_deductible
                total_concessional == employer_sg + salary_sacrifice + personal_deductible
                trace_entry ==
                    TraceEntry("CAL-SUP-002", entity_id, "total_concessional_contributions",
                               [ employer_sg |-> employer_sg,
                                 salary_sacrifice |-> salary_sacrifice,
                                 personal_deductible |-> personal_deductible,
                                 total |-> total_concessional ])
                sr0 == IF ~PydanticContains(state.intermediates, "super_results")
                       THEN EmptyDict ELSE state.intermediates.super_results
            IN  Return([state EXCEPT
                            !.intermediates.super_results =
                                DictSet(sr0, "total_concessional", total_concessional),
                            !.intermediates.trace_log = Append(@, trace_entry)],
                       CalculationResult(TRUE, Some(total_concessional), <<trace_entry>>, None))

run_CAL_SUP_002(state, entity_id, yi) ==
    ExceptException("CAL-SUP-002", try_CAL_SUP_002(state, entity_id, yi))

try_CAL_SUP_003(state, entity_id, yi) ==
    LET total_concessional ==
            DictGet(state.intermediates.super_results, "total_concessional", Zero)
    IN  IF ~rule_loader.available THEN Raise(state, FileNotFoundMessage)
        ELSE
        LET concessional_cap == rule_loader.rules.concessional_cap
            utilised == total_concessional
            remaining == Max2(Zero, concessional_cap - utilised)
            excess == Max2(Zero, utilised - concessional_cap)
            trace_entry ==
                TraceEntry("CAL-SUP-003", entity_id, "concessional_cap_utilisation",
                           [ cap_limit |-> concessional_cap,
                             utilised |-> utilised,
                             remaining |-> remaining,
                             excess |-> excess ])
        IN  Return([state EXCEPT
                        !.intermediates.super_results =
                            DictSet(DictSet(DictSet(@,
                                "concessional_cap_utilised", utilised),
                                "concessional_cap_remaining", remaining),
                                "concessional_cap_excess", excess),
                        !.intermediates.trace_log = Append(@, trace_entry)],
                   CalculationResult(TRUE, Some(utilised), <<trace_entry>>, None))

run_CAL_SUP_003(state, entity_id, yi) ==
    ExceptException("CAL-SUP-003", try_CAL_SUP_003(state, entity_id, yi))

try_CAL_SUP_007(state, entity_id, yi) ==
    LET total_concessional ==
            DictGet(state.intermediates.super_results, "total_concessional", Zero)
    IN  IF ~rule_loader.available THEN Raise(state, FileNotFoundMessage)
        ELSE
        LET contributions_tax_rate == rule_loader.rules.contributions_tax_rate
            contributions_tax == DecMul(total_concessional, contributions_tax_rate)
            trace_entry ==
                TraceEntry("CAL-SUP-007", entity_id, "contributions_tax",
                           [ concessional_contributions |-> total_concessional,
                             tax_rate |-> contributions_tax_rate,
                             tax_amount |-> contributions_tax ])
        IN  Return([state EXCEPT
                        !.intermediates.super_results =
                            DictSet(@, "contributions_tax", contributions_tax),
                        !.intermediates.trace_log = Append(@, trace_entry)],
                   CalculationResult(TRUE, Some(contributions_tax), <<trace_entry>>, None))

run_CAL_SUP_007(state, entity_id, yi) ==
    ExceptException("CAL-SUP-007", try_CAL_SUP_007(state, entity_id, yi))

try_CAL_SUP_008(state, entity_id, yi) ==
    LET tax_results == DictGet(state.intermediates.tax_results, entity_id, EmptyDict)
        taxable_income == DictGet(tax_results, "taxable_income", Zero)
        ati == taxable_income
    IN  IF ~rule_loader.available THEN Raise(state, FileNotFoundMessage)
        ELSE
        LET div293_threshold == rule_loader.rules.division_293_threshold
            additional_rate == rule_loader.rules.division_293_rate
            additional_tax ==
                IF ati > div293_threshold
                THEN DecMul(DictGet(state.intermediates.super_results,
                                    "total_concessional", Zero),
                            additional_rate)
                ELSE Zero
            trace_entry ==
                TraceEntry("CAL-SUP-008", entity_id, "division_293_tax",
                           [ adjusted_taxable_income |-> ati,
                             threshold |-> div293_threshold,
                             additional_rate |-> additional_rate,
                             additional_tax |-> additional_tax ])
        IN  Return([state EXCEPT
                        !.intermediates.super_results =
                            DictSet(@, "division_293_tax", additional_tax),
                        !.intermediates.trace_log = Append(@, trace_entry)],
                   CalculationResult(TRUE, Some(additional_tax), <<trace_entry>>, None))

run_CAL_SUP_008(state, entity_id, yi) ==
    ExceptException("CAL-SUP-008", try_CAL_SUP_008(state, entity_id, yi))

try_CAL_SUP_009(state, entity_id, yi) ==
    LET super_results == state.intermediates.super_results
        total_concessional == DictGet(super_results, "total_concessional", Zero)
        contributions_tax == DictGet(super_results, "contributions_tax", Zero)
        division_293_tax == DictGet(super_results, "division_293_tax", Zero)
        total_taxes == contributions_tax + division_293_tax
        net_contribution == total_concessional - total_taxes
        trace_entry ==
            TraceEntry("CAL-SUP-009", entity_id, "net_super_contribution",
                       [ gross_contributions |-> total_concessional,
                         contributions_tax |-> contributions_tax,
                         division_293_tax |-> division_293_tax,
                         total_taxes |-> total_taxes,
                         net_contribution |-> net_contribution ])
    IN  Return([state EXCEPT
                    !.intermediates.super_results =
                        DictSet(@, "net_contribution", net_contribution),
                    !.intermediates.trace_log = Append(@, trace_entry)],
               CalculationResult(TRUE, Some(net_contribution), <<trace_entry>>, None))

run_CAL_SUP_009(state, entity_id, yi) ==
    ExceptException("CAL-SUP-009", try_CAL_SUP_009(state, entity_id, yi))

-----------------------------------------------------------------------------
(* Capital gains: CAL-CGT-001, -002; property: CAL-PFL-104 *)

try_CAL_CGT_001(state, entity_id, yi) ==
    LET capital_gain == Zero
        trace_entry ==
            TraceEntry("CAL-CGT-001", entity_id, "capital_gain",
                       [ proceeds |-> Zero, cost_base |-> Zero,
                         capital_gain |-> capital_gain ])
        must_create == ~PydanticContains(state.intermediates, "cgt_results")
    IN  IF ~HasField(state.intermediates, "cgt_results")
        THEN IF must_create
             THEN Raise(state, NoFieldMessage("CalculatedIntermediariesContext", "cgt_results"))
             ELSE Raise(state, AttributeErrorMessage("CalculatedIntermediariesContext",
                                                     "cgt_results"))
        ELSE
        LET cgt0 == IF must_create THEN EmptyDict ELSE state.intermediates.cgt_results
        IN  Return([state EXCEPT
                        !.intermediates.cgt_results =
                            DictSet(cgt0, "capital_gain", capital_gain),
                        !.intermediates.trace_log = Append(@, trace_entry)],
                   CalculationResult(TRUE, Some(capital_gain), <<trace_entry>>, None))

run_CAL_CGT_001(state, entity_id, yi) ==
    ExceptException("CAL-CGT-001", try_CAL_CGT_001(state, entity_id, yi))

try_CAL_CGT_002(state, entity_id, yi) ==
    IF ~HasField(state.intermediates, "cgt_results")
    THEN Raise(state, AttributeErrorMessage("CalculatedIntermediariesContext", "cgt_results"))
    ELSE IF ~rule_loader.available THEN Raise(state, FileNotFoundMessage)
    ELSE
    LET capital_gain == DictGet(state.intermediates.cgt_results, "capital_gain", Zero)
        discount_rate == rule_loader.rules.individual_discount_rate
        cgt_discount == DecMul(capital_gain, discount_rate)
        discounted_gain == capital_gain - cgt_discount
        trace_entry ==
            TraceEntry("CAL-CGT-002", entity_id, "discounted_capital_gain",
                       [ original_gain |-> capital_gain,
                         discount_rate |-> discount_rate,
                         discount_amount |-> cgt_discount,
                         discounted_gain |-> discounted_gain ])
    IN  Return([state EXCEPT
                    !.intermediates.cgt_results =
                        DictSet(@, "discounted_gain", discounted_gain),
                    !.intermediates.trace_log = Append(@, trace_entry)],
               CalculationResult(TRUE, Some(discounted_gain), <<trace_entry>>, None))

run_CAL_CGT_002(state, entity_id, yi) ==
    ExceptException("CAL-CGT-002", try_CAL_CGT_002(state, entity_id, yi))

\* a handler that puts its entry at the head of the trace log
try_CAL_PFL_104_prepending(state, entity_id, yi) ==
    IF ~rule_loader.available THEN Raise(state, FileNotFoundMessage)
    ELSE
    LET trace_entry ==
            TraceEntry("CAL-PFL-104", entity_id, "negative_gearing_benefit",
                       [ property_interest |-> Zero,
                         rental_income |-> Zero,
                         deductible_loss |-> Zero,
                         marginal_rate |-> rule_loader.rules.marginal_tax_rate,
                         tax_benefit |-> Zero ])
    IN  Return([state EXCEPT
                    !.intermediates.property_results =
                        DictSet(EmptyDict, "negative_gearing_benefit", Zero),
                    !.intermediates.trace_log = <<trace_entry>> \o @],
               CalculationResult(TRUE, Some(Zero), <<trace_entry>>, None))

try_CAL_PFL_104(state, entity_id, yi) ==
    LET property_interest == Zero
        rental_income == Zero
        deductible_loss == property_interest - rental_income
    IN  IF ~rule_loader.available THEN Raise(state, FileNotFoundMessage)
        ELSE
        LET marginal_rate == rule_loader.rules.marginal_tax_rate
            tax_benefit ==
                IF deductible_loss > 0 THEN DecMul(deductible_loss, marginal_rate) ELSE Zero
            trace_entry ==
                TraceEntry("CAL-PFL-104", entity_id, "negative_gearing_benefit",
                           [ property_interest |-> property_interest,
                             rental_income |-> rental_income,
                             deductible_loss |-> deductible_loss,
                             marginal_rate |-> marginal_rate,
                             tax_benefit |-> tax_benefit ])
            pr0 == IF ~PydanticContains(state.intermediates, "property_results")
                   THEN EmptyDict ELSE state.intermediates.property_results
        IN  Return([state EXCEPT
                        !.intermediates.property_results =
                            DictSet(pr0, "negative_gearing_benefit", tax_benefit),
                        !.intermediates.trace_log = Append(@, trace_entry)],
                   CalculationResult(TRUE, Some(tax_benefit), <<trace_entry>>, None))

run_CAL_PFL_104(state, entity_id, yi) ==
    ExceptException("CAL-PFL-104", try_CAL_PFL_104(state, entity_id, yi))

-----------------------------------------------------------------------------
(* Calculation Registry *)

\* the dispatch table as the module builds it at import
InitialRegistry ==
    [ cal_id \in { "CAL-PIT-001", "CAL-PIT-002", "CAL-PIT-004", "CAL-PIT-005",
                   "CAL-CGT-001", "CAL-CGT-002",
                   "CAL-SUP-002", "CAL-SUP-003", "CAL-SUP-007", "CAL-SUP-008",
                   "CAL-SUP-009", "CAL-PFL-104" } |->
        CASE cal_id = "CAL-PIT-001" -> "run_CAL_PIT_001"
          [] cal_id = "CAL-PIT-002" -> "run_CAL_PIT_002"
          [] cal_id = "CAL-PIT-004" -> "run_CAL_PIT_004"
          [] cal_id = "CAL-PIT-005" -> "run_CAL_PIT_005"
          [] cal_id = "CAL-CGT-001" -> "run_CAL_CGT_001"
          [] cal_id = "CAL-CGT-002" -> "run_CAL_CGT_002"
          [] cal_id = "CAL-SUP-002" -> "run_CAL_SUP_002"
          [] cal_id = "CAL-SUP-003" -> "run_CAL_SUP_003"
          [] cal_id = "CAL-SUP-007" -> "run_CAL_SUP_007"
          [] cal_id = "CAL-SUP-008" -> "run_CAL_SUP_008"
          [] cal_id = "CAL-SUP-009" -> "run_CAL_SUP_009"
          [] cal_id = "CAL-PFL-104" -> "run_CAL_PFL_104" ]

\* func(*args, **kwargs) for the function object a table entry holds
Apply(func, state, entity_id, yi) ==
    CASE func = "run_CAL_PIT_001" -> run_CAL_PIT_001(state, entity_id, yi)
      [] func = "run_CAL_PIT_002" -> run_CAL_PIT_002(state, entity_id, yi)
      [] func = "run_CAL_PIT_004" -> run_CAL_PIT_004(state, entity_id, yi)
      [] func = "run_CAL_PIT_005" -> run_CAL_PIT_005(state, entity_id, yi)
      [] func = "run_CAL_CGT_001" -> run_CAL_CGT_001(state, entity_id, yi)
      [] func = "run_CAL_CGT_002" -> run_CAL_CGT_002(state, entity_id, yi)
      [] func = "run_CAL_SUP_002" -> run_CAL_SUP_002(state, entity_id, yi)
      [] func = "run_CAL_SUP_003" -> run_CAL_SUP_003(state, entity_id, yi)
      [] func = "run_CAL_SUP_007" -> run_CAL_SUP_007(state, entity_id, yi)
      [] func = "run_CAL_SUP_008" -> run_CAL_SUP_008(state, entity_id, yi)
      [] func = "run_CAL_SUP_009" -> run_CAL_SUP_009(state, entity_id, yi)
      [] func = "run_CAL_PFL_104" -> run_CAL_PFL_104(state, entity_id, yi)

\* get_calculation: the KeyError for an identifier the table does not hold
UnknownCalculation(registry, cal_id) ==
    <<"Calculation", cal_id, "not found in registry. Available calculations:",
      DOMAIN registry>>

\* a lookup that falls back to a handler it knows when the identifier is unknown
get_calculation_lenient(registry, cal_id) ==
    [ raised |-> FALSE, exc_type |-> "none", exc |-> None,
      func |-> IF cal_id \in DOMAIN registry THEN registry[cal_id]
               ELSE registry["CAL-PIT-001"] ]

\* get_calculation(cal_id) on dispatch table `registry`
get_calculation(registry, cal_id) ==
    IF cal_id \notin DOMAIN registry
    THEN [ raised |-> TRUE, exc_type |-> "KeyError",
           exc |-> UnknownCalculation(registry, cal_id), func |-> None ]
    ELSE [ raised |-> FALSE, exc_type |-> "none", exc |-> None,
           func |-> registry[cal_id] ]

\* register_calculation: the ValueError for an identifier the table holds
AlreadyRegistered(cal_id) == <<"Calculation", cal_id, "is already registered">>

\* a registration that replaces what the table holds
register_calculation_replacing(registry, cal_id, func) ==
    [ raised |-> FALSE, exc_type |-> "none", exc |-> None,
      registry |-> DictSet(registry, cal_id, func) ]

\* register_calculation(cal_id, func) on dispatch table `registry`
register_calculation(registry, cal_id, func) ==
    IF cal_id \in DOMAIN registry
    THEN [ raised |-> TRUE, exc_type |-> "ValueError",
           exc |-> AlreadyRegistered(cal_id), registry |-> registry ]
    ELSE [ raised |-> FALSE, exc_type |-> "none", exc |-> None,
           registry |-> DictSet(registry, cal_id, func) ]

\* run_calculation(cal_id, state, entity_id, year_index) on dispatch table `registry`
run_calculation(registry, cal_id, state, entity_id, yi) ==
    LET func == get_calculation(registry, cal_id)
    IN  IF func.raised
        THEN Raise(state, func.exc)
        ELSE Apply(func.func, state, entity_id, yi)

\* a listing that hands out the dispatch table itself
get_registered_calculations_aliasing(registry) ==
    [ shared |-> TRUE, items |-> registry ]

\* get_registered_calculations(): CALCULATION_REGISTRY.copy(), a new dict object
\* (shared: whether the caller's dict is the dispatch table object itself)
get_registered_calculations(registry) ==
    [ shared |-> FALSE, items |-> registry ]

-----------------------------------------------------------------------------
(* Projection Engine *)

\* a tax chain that works out the offsets before the tax they reduce
TaxChainOffsetsFirst ==
    <<"CAL-PIT-004", "CAL-PIT-001", "CAL-PIT-002", "CAL-PIT-005">>

\* _calculate_entity_tax_metrics and _calculate_entity_super_metrics: the
\* run_calculation calls each makes, in order
TaxChain == <<"CAL-PIT-001", "CAL-PIT-002", "CAL-PIT-004", "CAL-PIT-005">>

SuperChain ==
    <<"CAL-SUP-002", "CAL-SUP-003", "CAL-SUP-007", "CAL-SUP-008", "CAL-SUP-009">>

\* range(projection_years), which leaves out the last year
YearRangeExclusive(n) == 0..(n - 1)

\* range(projection_years + 1)
YearRange(n) == 0..n

NoCall == [cal_id |-> "none"]

\* no registry operation made yet
NoOp == [op |-> "none"]

\* get_registered_calculations not called yet
NoDict == [shared |-> FALSE, items |-> EmptyDict]

\* no second run
NoRun == [pc |-> "none"]

\* the record kept of one run_calculation call
\* (pre: the state's value before the call; result: what the call returned,
\* unless an exception left it)
CallRecord(cal_id, entity_id, yi, pre, outcome) ==
    [ cal_id |-> cal_id, entity_id |-> entity_id, year_index |-> yi,
      pre |-> pre, raised |-> outcome.raised,
      result |-> IF outcome.raised THEN None ELSE outcome.result,
      exc |-> IF outcome.raised THEN outcome.exc ELSE None ]

\* salary_wages_gross = (salary_wages_gross * (1 + rate)).quantize(Decimal('0.01'))
\* for every cashflow that has the attribute
GrowSalaries(flows, rate) ==
    [i \in 1..Len(flows) |->
        IF HasField(flows[i][2], "salary_wages_gross")
        THEN <<flows[i][1],
               [flows[i][2] EXCEPT !.salary_wages_gross =
                    quantize_cent(DecMul(@, RateDen + rate))]>>
        ELSE flows[i]]

_apply_inflation_to_cashflows(cashflow_context, inflation_rate) ==
    IF inflation_rate = 0 THEN cashflow_context
    ELSE [cashflow_context EXCEPT !.flows = GrowSalaries(@, inflation_rate)]

_apply_wage_growth_to_cashflows(cashflow_context, wage_growth_rate) ==
    IF wage_growth_rate = 0 THEN cashflow_context
    ELSE [cashflow_context EXCEPT !.flows = GrowSalaries(@, wage_growth_rate)]

\* a growth step that revalues the assets
_apply_property_growth_revaluing(position_context, property_growth_rate) ==
    [position_context EXCEPT
        !.assets.home = quantize_cent(DecMul(@, RateDen + property_growth_rate))]

\* pass
_apply_property_growth_to_assets(position_context, property_growth_rate) ==
    position_context

\* pass
_apply_investment_returns_to_assets(position_context, equity_rate, fixed_income_rate) ==
    position_context

\* a transition that hands on a copy of the state and records nothing
_advance_unrecorded(h, cur, yi) == model_copy_deep(h, cur)

\* _advance_to_next_year(current_state, year_index): the heap after the call and
\* the address of the state it returns
_advance_to_next_year(h, cur, yi) ==
    LET copy == model_copy_deep(h, cur)
        next == copy.ref
        h1 == copy.heap
        \* next_state keeps its five context objects through the whole function;
        \* the assignments below go into those objects
        next_state == h1[next]
        g(hh, s) == hh[hh[s].global_context]
        h2 == [h1 EXCEPT ![next_state.global_context].financial_year = @ + 1]
        \* current_state.global_context is read after financial_year is assigned
        \* and no later statement assigns into a global_context object
        inflation_rate == g(h2, cur).inflation_rate
        h3 == [h2 EXCEPT ![next_state.cashflow_context] =
                    _apply_inflation_to_cashflows(@, inflation_rate)]
        wage_growth_rate == g(h2, cur).wage_growth_rate
        h4 == [h3 EXCEPT ![next_state.cashflow_context] =
                    _apply_wage_growth_to_cashflows(@, wage_growth_rate)]
        property_growth_rate == g(h2, cur).property_growth_rate
        h5 == [h4 EXCEPT ![next_state.position_context] =
                    _apply_property_growth_to_assets(@, property_growth_rate)]
        equity_return_rate == g(h2, cur).equity_return_rate
        fixed_income_return_rate == g(h2, cur).fixed_income_return_rate
        h6 == [h5 EXCEPT ![next_state.position_context] =
                    _apply_investment_returns_to_assets(@, equity_return_rate,
                                                        fixed_income_return_rate)]
        trace_entry ==
            TraceEntry("PROJECTION_ADVANCE", "None", "year_advancement",
                       [ from_year |-> g(h2, cur).financial_year,
                         to_year |-> g(h2, next).financial_year,
                         inflation_rate |-> inflation_rate,
                         wage_growth_rate |-> wage_growth_rate,
                         property_growth_rate |-> property_growth_rate,
                         equity_return_rate |-> equity_return_rate ])
        h7 == [h6 EXCEPT ![next_state.intermediates].trace_log = Append(@, trace_entry)]
    IN  [heap |-> h7, ref |-> next]

\* YearSnapshot(year_index, financial_year, position_snapshot, intermediaries):
\* the two context fields keep the objects they are given
YearSnapshot(h, s, yi) ==
    [ year_index |-> yi,
      financial_year |-> h[h[s].global_context].financial_year + yi,
      position_snapshot |-> h[s].position_context,
      intermediaries |-> h[s].intermediates ]

\* the value of snapshot k of the timeline, with its objects read from the heap
SnapshotValue(k) ==
    [ year_index |-> timeline[k].year_index,
      financial_year |-> timeline[k].financial_year,
      position_snapshot |-> heap[timeline[k].position_snapshot],
      intermediaries |-> heap[timeline[k].intermediaries] ]

\* an engine that keeps one intermediates object and clears it for each year
ReusedIntermediates(h, s) ==
    [ heap |-> [h EXCEPT ![5] = CalculatedIntermediariesContext], ref |-> 5 ]

\* an engine whose audit trail is cumulative: the year's object starts as a
\* copy of the one the state holds
CarriedIntermediates(h, s) ==
    [ heap |-> Place(h, LastUsed(h, s), <<h[h[s].intermediates]>>),
      ref |-> LastUsed(h, s) + 1 ]

\* CalculatedIntermediariesContext() for the state object at address s: a new,
\* empty object
NewIntermediates(h, s) ==
    [ heap |-> Place(h, LastUsed(h, s), <<CalculatedIntermediariesContext>>),
      ref |-> LastUsed(h, s) + 1 ]

\* where the for loop of project_scenario goes after the body for year yi
LoopContinues(yi) == yi + 1 \in YearRange(projection_years)

Init ==
    /\ \E g \in GlobalInputs, c \in FlowsInputs, i \in IntermediatesInputs :
          heap = NewState(g, EntityInput, PositionInput, [flows |-> c], i)
    /\ base_state = 6
    /\ base_before = Deref(heap, base_state)
    /\ projection_years \in 0..MaxYears
    /\ year_index = 0
    /\ current_state = 0
    /\ timeline = <<>>
    /\ pc = "call"
    /\ entity_idx = 1
    /\ chain_idx = 1
    /\ rule_loader \in RuleLoaders
    /\ CALCULATION_REGISTRY = InitialRegistry
    /\ call = NoCall
    /\ ncalls = 0
    /\ registry_op = NoOp
    /\ registered = NoDict
    /\ active = 1
    /\ parked = NoRun

\* an engine that keeps the timeline list as an attribute of the shared
\* projection_engine: a run starts from what the other run has appended
EngineTimeline == parked.timeline

\* timeline: List[YearSnapshot] = [], a local of each call
NewTimeline == <<>>

\* project_scenario, up to the first iteration of its loop
EnterProjection ==
    /\ pc = "call"
    /\ LET copy == model_copy_deep(heap, base_state)
       IN  /\ heap' = copy.heap
           /\ current_state' = copy.ref
    /\ timeline' = NewTimeline
    /\ year_index' = 0
    /\ pc' = IF 0 \in YearRange(projection_years) THEN "reset" ELSE "returned"
    /\ call' = NoCall
    /\ UNCHANGED <<base_state, base_before, projection_years, entity_idx, chain_idx,
                   rule_loader, CALCULATION_REGISTRY, ncalls, client_vars,
                   scheduler_vars>>

\* _calculate_year_snapshot: state.intermediates = CalculatedIntermediariesContext()
ResetIntermediates ==
    /\ pc = "reset"
    /\ LET fresh == NewIntermediates(heap, current_state)
       IN  heap' = [fresh.heap EXCEPT ![current_state].intermediates = fresh.ref]
    /\ entity_idx' = 1
    /\ chain_idx' = 1
    /\ pc' = IF Len(Deref(heap, current_state).cashflow_context.flows) = 0
             THEN "snapshot" ELSE "tax"
    /\ call' = NoCall
    /\ UNCHANGED <<base_state, base_before, projection_years, year_index,
                   current_state, timeline, rule_loader, CALCULATION_REGISTRY, ncalls, client_vars,
                   scheduler_vars>>

\* one run_calculation call of the chain `chain` for the entity the loop is at
ChainStep(chain, after) ==
    LET state == Deref(heap, current_state)
        keys == FlowKeys(state.cashflow_context.flows)
        entity_id == keys[entity_idx]
        cal_id == chain[chain_idx]
        outcome == run_calculation(CALCULATION_REGISTRY, cal_id, state, entity_id,
                                   year_index)
    IN  /\ heap' = Store(heap, current_state, outcome.state)
        /\ call' = CallRecord(cal_id, entity_id, year_index, state, outcome)
        /\ IF outcome.raised
           THEN pc' = "raised" /\ UNCHANGED <<entity_idx, chain_idx, client_vars,
                   scheduler_vars>>
           ELSE IF chain_idx < Len(chain)
           THEN pc' = pc /\ chain_idx' = chain_idx + 1 /\ entity_idx' = entity_idx
           ELSE IF entity_idx < Len(keys)
           THEN pc' = pc /\ chain_idx' = 1 /\ entity_idx' = entity_idx + 1
           ELSE pc' = after /\ chain_idx' = 1 /\ entity_idx' = 1
        /\ ncalls' = ncalls + 1
        /\ UNCHANGED <<base_state, base_before, projection_years, year_index,
                       current_state, timeline, rule_loader, CALCULATION_REGISTRY,
                       client_vars, scheduler_vars>>

\* _calculate_entity_tax_metrics, inside the first entity loop
TaxStep == pc = "tax" /\ ChainStep(TaxChain, "super")

\* _calculate_entity_super_metrics, inside the second entity loop
SuperStep == pc = "super" /\ ChainStep(SuperChain, "snapshot")

\* the YearSnapshot is built and appended; the last year ends the run
TakeSnapshot ==
    /\ pc = "snapshot"
    /\ timeline' = Append(timeline, YearSnapshot(heap, current_state, year_index))
    /\ IF year_index < projection_years
       THEN pc' = "advance" /\ year_index' = year_index
       ELSE IF LoopContinues(year_index)
       THEN pc' = "reset" /\ year_index' = year_index + 1
       ELSE pc' = "returned" /\ year_index' = year_index
    /\ call' = NoCall
    /\ UNCHANGED <<heap, base_state, base_before, projection_years, current_state,
                   entity_idx, chain_idx, rule_loader, CALCULATION_REGISTRY, ncalls, client_vars,
                   scheduler_vars>>

\* current_state = self._advance_to_next_year(current_state, year_index)
AdvanceToNextYear ==
    /\ pc = "advance"
    /\ LET adv == _advance_to_next_year(heap, current_state, year_index)
       IN  /\ heap' = adv.heap
           /\ current_state' = adv.ref
    /\ IF LoopContinues(year_index)
       THEN pc' = "reset" /\ year_index' = year_index + 1
       ELSE pc' = "returned" /\ year_index' = year_index
    /\ call' = NoCall
    /\ UNCHANGED <<base_state, base_before, projection_years, timeline, entity_idx,
                   chain_idx, rule_loader, CALCULATION_REGISTRY, ncalls, client_vars,
                   scheduler_vars>>

\* what a caller writes into a snapshot it was given
TamperedPosition == [assets |-> [home |-> Dollars(1, 0)]]

TamperedResults == [tampered |-> TRUE]

\* after the return: the caller assigns into timeline[k].position_snapshot
MutatePositionSnapshot ==
    /\ pc = "returned"
    /\ \E k \in 1..Len(timeline) :
          /\ heap[timeline[k].position_snapshot] # TamperedPosition
          /\ heap' = [heap EXCEPT ![timeline[k].position_snapshot] = TamperedPosition]
    /\ call' = NoCall
    /\ UNCHANGED <<base_state, base_before, projection_years, year_index,
                   current_state, timeline, pc, entity_idx, chain_idx, rule_loader,
                   CALCULATION_REGISTRY, ncalls, client_vars,
                   scheduler_vars>>

\* after the return: the caller assigns into timeline[k].intermediaries
MutateIntermediaries ==
    /\ pc = "returned"
    /\ \E k \in 1..Len(timeline) :
          /\ heap[timeline[k].intermediaries].plan_level_results # TamperedResults
          /\ heap' = [heap EXCEPT ![timeline[k].intermediaries].plan_level_results =
                                        TamperedResults]
    /\ call' = NoCall
    /\ UNCHANGED <<base_state, base_before, projection_years, year_index,
                   current_state, timeline, pc, entity_idx, chain_idx, rule_loader,
                   CALCULATION_REGISTRY, ncalls, client_vars,
                   scheduler_vars>>

Next ==
    \/ EnterProjection
    \/ ResetIntermediates
    \/ TaxStep
    \/ SuperStep
    \/ TakeSnapshot
    \/ AdvanceToNextYear
    \/ MutatePositionSnapshot
    \/ MutateIntermediaries

Spec == Init /\ [][Next]_vars

-----------------------------------------------------------------------------
(* Direct handler calls on a state the caller owns *)

InitCalc ==
    /\ \E g \in GlobalInputs, c \in FlowsInputs, i \in IntermediatesInputs :
          /\ g.inflation_rate = 0
          /\ heap = NewState(g, EntityInput, PositionInput, [flows |-> c], i)
    /\ base_state = 6
    /\ base_before = Deref(heap, base_state)
    /\ projection_years = 0
    /\ year_index = 0
    /\ current_state = 0
    /\ timeline = <<>>
    /\ pc = "direct"
    /\ entity_idx = 1
    /\ chain_idx = 1
    /\ rule_loader \in RuleLoaders
    /\ CALCULATION_REGISTRY = InitialRegistry
    /\ call = NoCall
    /\ ncalls = 0
    /\ registry_op = NoOp
    /\ registered = NoDict
    /\ active = 1
    /\ parked = NoRun

\* run_calculation(cal_id, state, entity_id) by the caller
DirectCall ==
    /\ pc = "direct"
    /\ ncalls < MaxCalls
    /\ \E cal_id \in DOMAIN CALCULATION_REGISTRY, entity_id \in EntityArgs :
          LET state == Deref(heap, base_state)
              outcome == run_calculation(CALCULATION_REGISTRY, cal_id, state,
                                         entity_id, 0)
          IN  /\ heap' = Store(heap, base_state, outcome.state)
              /\ call' = CallRecord(cal_id, entity_id, 0, state, outcome)
              /\ pc' = IF outcome.raised THEN "raised" ELSE "direct"
    /\ ncalls' = ncalls + 1
    /\ UNCHANGED <<base_state, base_before, projection_years, year_index,
                   current_state, timeline, entity_idx, chain_idx, rule_loader,
                   CALCULATION_REGISTRY, client_vars,
                   scheduler_vars>>

NextCalc == DirectCall

SpecCalc == InitCalc /\ [][NextCalc]_vars

-----------------------------------------------------------------------------
(* A client of the Calculation Registry *)

\* a client session makes at most MaxOps registry operations
MaxOps == 3

\* identifiers a client registers: one the table holds, two it does not
RegistrationIds == {"CAL-PIT-001", "CAL-NEW-001", "CAL-NEW-002"}

\* function objects a client registers
RegistrationFuncs == {"run_CAL_PIT_001", "run_CAL_PFL_104"}

\* identifiers a client looks up: the last one is never registered
LookupIds == {"CAL-PIT-001", "CAL-NEW-001", "CAL-XXX-999"}

\* the record kept of one registry operation (pre: the table before it)
OpRecord(op, cal_id, func, pre, outcome) ==
    [ op |-> op, cal_id |-> cal_id, func |-> func, pre |-> pre,
      raised |-> outcome.raised, exc_type |-> outcome.exc_type, exc |-> outcome.exc ]

NoException == [raised |-> FALSE, exc_type |-> "none", exc |-> None]

InitReg ==
    /\ \E g \in GlobalInputs, c \in FlowsInputs :
          /\ g.inflation_rate = 0
          /\ Len(c) = 2
          /\ heap = NewState(g, EntityInput, PositionInput, [flows |-> c],
                             CalculatedIntermediariesContext)
    /\ base_state = 6
    /\ base_before = Deref(heap, base_state)
    /\ projection_years = 0
    /\ year_index = 0
    /\ current_state = 0
    /\ timeline = <<>>
    /\ pc = "registry"
    /\ entity_idx = 1
    /\ chain_idx = 1
    /\ rule_loader \in RuleLoaders
    /\ CALCULATION_REGISTRY = InitialRegistry
    /\ call = NoCall
    /\ ncalls = 0
    /\ registry_op = NoOp
    /\ registered = NoDict
    /\ active = 1
    /\ parked = NoRun

\* register_calculation(cal_id, func); the client catches the ValueError
RegisterCalculation ==
    /\ pc = "registry"
    /\ ncalls < MaxOps
    /\ \E cal_id \in RegistrationIds, func \in RegistrationFuncs :
          LET outcome == register_calculation(CALCULATION_REGISTRY, cal_id, func)
          IN  /\ CALCULATION_REGISTRY' = outcome.registry
              /\ registered' = IF registered.shared
                               THEN [registered EXCEPT !.items = outcome.registry]
                               ELSE registered
              /\ registry_op' = OpRecord("register_calculation", cal_id, func,
                                         CALCULATION_REGISTRY, outcome)
    /\ call' = NoCall
    /\ ncalls' = ncalls + 1
    /\ UNCHANGED <<heap, base_state, base_before, projection_years, year_index,
                   current_state, timeline, pc, entity_idx, chain_idx, rule_loader,
                   scheduler_vars>>

\* get_calculation(cal_id); the client catches the KeyError
GetCalculation ==
    /\ pc = "registry"
    /\ ncalls < MaxOps
    /\ \E cal_id \in LookupIds :
          LET outcome == get_calculation(CALCULATION_REGISTRY, cal_id)
          IN  registry_op' = OpRecord("get_calculation", cal_id, outcome.func,
                                      CALCULATION_REGISTRY, outcome)
    /\ call' = NoCall
    /\ ncalls' = ncalls + 1
    /\ UNCHANGED <<heap, base_state, base_before, projection_years, year_index,
                   current_state, timeline, pc, entity_idx, chain_idx, rule_loader,
                   CALCULATION_REGISTRY, registered, scheduler_vars>>

\* run_calculation(cal_id, state, entity_id); the client catches the KeyError
RunCalculation ==
    /\ pc = "registry"
    /\ ncalls < MaxOps
    /\ \E cal_id \in LookupIds, entity_id \in {"e1"} :
          LET state == Deref(heap, base_state)
              outcome == run_calculation(CALCULATION_REGISTRY, cal_id, state,
                                         entity_id, 0)
          IN  /\ heap' = Store(heap, base_state, outcome.state)
              /\ call' = CallRecord(cal_id, entity_id, 0, state, outcome)
              /\ registry_op' = OpRecord("run_calculation", cal_id, None,
                                         CALCULATION_REGISTRY, NoException)
    /\ ncalls' = ncalls + 1
    /\ UNCHANGED <<base_state, base_before, projection_years, year_index,
                   current_state, timeline, pc, entity_idx, chain_idx, rule_loader,
                   CALCULATION_REGISTRY, registered, scheduler_vars>>

\* registered = get_registered_calculations()
GetRegisteredCalculations ==
    /\ pc = "registry"
    /\ ncalls < MaxOps
    /\ registered' = get_registered_calculations(CALCULATION_REGISTRY)
    /\ registry_op' = OpRecord("get_registered_calculations", None, None,
                               CALCULATION_REGISTRY, NoException)
    /\ call' = NoCall
    /\ ncalls' = ncalls + 1
    /\ UNCHANGED <<heap, base_state, base_before, projection_years, year_index,
                   current_state, timeline, pc, entity_idx, chain_idx, rule_loader,
                   CALCULATION_REGISTRY, scheduler_vars>>

\* the dict d after `del d[cal_id]`
DictDel(d, cal_id) == [k \in (DOMAIN d) \ {cal_id} |-> d[k]]

\* what the client can turn the dict it was given into with one statement:
\* an entry added or replaced, or an entry removed
ClientEdits(items) ==
    { DictSet(items, cal_id, func) :
          cal_id \in RegistrationIds, func \in RegistrationFuncs }
    \cup { DictDel(items, cal_id) : cal_id \in RegistrationIds \cap DOMAIN items }

\* the client adds, replaces or removes an entry of the dict it was given
MutateRegistered ==
    /\ pc = "registry"
    /\ ncalls < MaxOps
    /\ registered # NoDict
    /\ \E items \in ClientEdits(registered.items) \ {registered.items} :
          /\ registered' = [registered EXCEPT !.items = items]
          /\ CALCULATION_REGISTRY' = IF registered.shared THEN items
                                     ELSE CALCULATION_REGISTRY
    /\ registry_op' = OpRecord("client_edit", None, None, CALCULATION_REGISTRY,
                               NoException)
    /\ call' = NoCall
    /\ ncalls' = ncalls + 1
    /\ UNCHANGED <<heap, base_state, base_before, projection_years, year_index,
                   current_state, timeline, pc, entity_idx, chain_idx, rule_loader,
                   scheduler_vars>>

NextReg ==
    \/ RegisterCalculation
    \/ GetCalculation
    \/ RunCalculation
    \/ GetRegisteredCalculations
    \/ MutateRegistered

SpecReg == InitReg /\ [][NextReg]_vars

-----------------------------------------------------------------------------
(* Two projection runs through the module-level projection_engine *)

\* the local variables of the run that is running
Context ==
    [ base_state |-> base_state, base_before |-> base_before,
      projection_years |-> projection_years, year_index |-> year_index,
      current_state |-> current_state, timeline |-> timeline, pc |-> pc,
      entity_idx |-> entity_idx, chain_idx |-> chain_idx, call |-> call,
      ncalls |-> ncalls ]

\* the heap of NewState and, above the first run's arena, a second
\* CalculationState of its own objects
TwoStates(g, e, p, c1, c2, i) ==
    LET n == ArenaSize
    IN  Place(NewState(g, e, p, c1, i), n,
              << g, e, p, c2, i,
                 [ global_context |-> n + 1, entity_context |-> n + 2,
                   position_context |-> n + 3, cashflow_context |-> n + 4,
                   intermediates |-> n + 5 ] >>)

\* two concurrent runs are called with projection_years in 0..MaxPairYears
MaxPairYears == 1

\* two callers, each about to call run_projection with a CalculationState of
\* its own
InitPair ==
    /\ \E g \in GlobalInputs, c2 \in FlowsInputs :
          LET c1 == CHOOSE c \in FlowsInputs : Len(c) = 2
              second == ArenaSize + 6
          IN  /\ heap = TwoStates(g, EntityInput, PositionInput, [flows |-> c1],
                                  [flows |-> c2], CalculatedIntermediariesContext)
              /\ base_state = 6
              /\ base_before = Deref(heap, base_state)
              /\ projection_years \in 0..MaxPairYears
              /\ parked = [ base_state |-> second,
                            base_before |-> Deref(heap, second),
                            projection_years |-> projection_years,
                            year_index |-> 0, current_state |-> 0,
                            timeline |-> <<>>, pc |-> "call", entity_idx |-> 1,
                            chain_idx |-> 1, call |-> NoCall, ncalls |-> 0 ]
    /\ year_index = 0
    /\ current_state = 0
    /\ timeline = <<>>
    /\ pc = "call"
    /\ entity_idx = 1
    /\ chain_idx = 1
    /\ rule_loader \in RuleLoaders
    /\ CALCULATION_REGISTRY = InitialRegistry
    /\ call = NoCall
    /\ ncalls = 0
    /\ registry_op = NoOp
    /\ registered = NoDict
    /\ active = 1

\* the scheduler takes the running run off the processor and resumes the other
SwitchRun ==
    /\ parked.pc \notin {"none", "returned"}
    /\ parked' = Context
    /\ active' = 3 - active
    /\ base_state' = parked.base_state
    /\ base_before' = parked.base_before
    /\ projection_years' = parked.projection_years
    /\ year_index' = parked.year_index
    /\ current_state' = parked.current_state
    /\ timeline' = parked.timeline
    /\ pc' = parked.pc
    /\ entity_idx' = parked.entity_idx
    /\ chain_idx' = parked.chain_idx
    /\ call' = parked.call
    /\ ncalls' = parked.ncalls
    /\ UNCHANGED <<heap, rule_loader, CALCULATION_REGISTRY, client_vars>>

NextPair ==
    \/ EnterProjection
    \/ ResetIntermediates
    \/ TaxStep
    \/ SuperStep
    \/ TakeSnapshot
    \/ AdvanceToNextYear
    \/ SwitchRun

SpecPair == InitPair /\ [][NextPair]_vars

-----------------------------------------------------------------------------
(* project_scenario run from call to return with no other run in between *)

\* the element of a one-element set: in The({ e(x) : x \in {v} }) the value v
\* is computed once, however often e uses it
The(S) == CHOOSE x \in S : TRUE

\* one entity loop of _calculate_year_snapshot from call c of entity e on: the
\* heap after the remaining run_calculation calls (none of them raises while
\* the table holds the twelve handlers)
RECURSIVE EntityLoop(_, _, _, _, _, _)
EntityLoop(h, s, chain, yi, e, c) ==
    LET state == Deref(h, s)
        keys == FlowKeys(state.cashflow_context.flows)
        outcome == run_calculation(CALCULATION_REGISTRY, chain[c], state, keys[e], yi)
    IN  IF Len(keys) = 0 THEN h
        ELSE The({ IF c < Len(chain) THEN EntityLoop(h1, s, chain, yi, e, c + 1)
                   ELSE IF e < Len(keys) THEN EntityLoop(h1, s, chain, yi, e + 1, 1)
                   ELSE h1
                   : h1 \in {Store(h, s, outcome.state)} })

\* _calculate_year_snapshot(state, year_index)
_calculate_year_snapshot(h, s, yi) ==
    LET fresh == NewIntermediates(h, s)
    IN  The({ The({ The({ [heap |-> h3, year_snapshot |-> YearSnapshot(h3, s, yi)]
                          : h3 \in {EntityLoop(h2, s, SuperChain, yi, 1, 1)} })
                    : h2 \in {EntityLoop(h1, s, TaxChain, yi, 1, 1)} })
              : h1 \in {[fresh.heap EXCEPT ![s].intermediates = fresh.ref]} })

\* the for loop of project_scenario from year yi on
RECURSIVE YearLoop(_, _, _, _, _)
YearLoop(h, s, tl, yi, n) ==
    The({ LET tl1 == Append(tl, year.year_snapshot)
          IN  IF yi < n
              THEN The({ IF LoopContinues(yi)
                         THEN YearLoop(adv.heap, adv.ref, tl1, yi + 1, n)
                         ELSE [heap |-> adv.heap, timeline |-> tl1]
                         : adv \in {_advance_to_next_year(year.heap, s, yi)} })
              ELSE [heap |-> year.heap, timeline |-> tl1]
          : year \in {_calculate_year_snapshot(h, s, yi)} })

\* project_scenario(base_state, projection_years) on the heap h
project_scenario(h, base, n) ==
    The({ IF 0 \in YearRange(n)
          THEN YearLoop(copy.heap, copy.ref, NewTimeline, 0, n)
          ELSE [heap |-> copy.heap, timeline |-> NewTimeline]
          : copy \in {model_copy_deep(h, base)} })

\* the snapshots of a timeline, each with its objects read from the heap
TimelineValues(h, tl) ==
    [ k \in 1..Len(tl) |->
        [ year_index |-> tl[k].year_index,
          financial_year |-> tl[k].financial_year,
          position_snapshot |-> h[tl[k].position_snapshot],
          intermediaries |-> h[tl[k].intermediaries] ] ]

\* ProjectionOutput(base_state=base_state, timeline=timeline), as values
ProjectionOutput(h, base, tl) ==
    [ base_state |-> Deref(h, base), timeline |-> TimelineValues(h, tl) ]

\* what run_projection returns to a caller alone in the process, for the
\* CalculationState value b and n projection years
RunAlone(b, n) ==
    The({ ProjectionOutput(run.heap, 6, run.timeline)
          : run \in { project_scenario(
                        NewState(b.global_context, b.entity_context,
                                 b.position_context, b.cashflow_context,
                                 b.intermediates), 6, n) } })

-----------------------------------------------------------------------------
(* Properties *)

\* the CalculationState the last handler call was made on
CalledState == IF current_state = 0 THEN base_state ELSE current_state

Called == call.cal_id # "none"

Returned == Called /\ ~call.raised

\* the message names calculation cal_id
Names(error_message, cal_id) ==
    \E i \in 1..Len(error_message) : error_message[i] = cal_id

\* key is missing from the entity's tax_results in state
TaxResultAbsent(state, entity_id, key) ==
    \/ entity_id \notin DOMAIN state.intermediates.tax_results
    \/ key \notin DOMAIN state.intermediates.tax_results[entity_id]

\* C1: when project_scenario has returned, the timeline holds exactly
\* projection_years + 1 snapshots and snapshot k (counting from 0) has
\* year_index k.
C1_TimelineShape ==
    pc = "returned" =>
        /\ Len(timeline) = projection_years + 1
        /\ \A k \in 1..Len(timeline) : timeline[k].year_index = k - 1

C1_Witness ==
    /\ pc = "returned"
    /\ projection_years = MaxYears
    /\ Len(timeline) >= 2
    /\ timeline[Len(timeline)].year_index = projection_years

\* C2: financial_year grows by exactly 1 from each snapshot of the timeline to
\* the next.
C2_FinancialYearStep ==
    \A k \in 1..(Len(timeline) - 1) :
        timeline[k + 1].financial_year = timeline[k].financial_year + 1

\* C3: after project_scenario has returned, a mutation of one snapshot's
\* position_snapshot or intermediaries changes the value of no other snapshot.
C3_SnapshotIsolation ==
    [][ (pc = "returned" /\ pc' = "returned") =>
            \A k \in 1..Len(timeline) :
                SnapshotValue(k)' # SnapshotValue(k) =>
                    \A j \in (1..Len(timeline)) \ {k} :
                        SnapshotValue(j)' = SnapshotValue(j) ]_vars

C3_Witness ==
    /\ pc = "returned"
    /\ \E k, j \in 1..Len(timeline) :
          /\ j # k
          /\ heap[timeline[k].position_snapshot] = TamperedPosition
          /\ heap[timeline[j].position_snapshot] # TamperedPosition
          /\ heap[timeline[k].intermediaries].plan_level_results = TamperedResults
          /\ heap[timeline[j].intermediaries].plan_level_results # TamperedResults

\* C4: while the projection runs, no step changes the position_snapshot or the
\* intermediaries of a snapshot that is already in the timeline.
C4_EmittedSnapshotFrozen ==
    [][ pc # "returned" =>
            \A k \in 1..Len(timeline) : SnapshotValue(k)' = SnapshotValue(k) ]_vars

C4_Witness ==
    /\ pc = "super"
    /\ year_index >= 1
    /\ Len(timeline) >= 1
    /\ Len(heap[heap[current_state].intermediates].trace_log) >= 1
    /\ heap[current_state].intermediates # timeline[Len(timeline)].intermediaries

\* C5: the caller's base_state keeps the value it had before the call, in all
\* five contexts, at every point of the run and after it.
C5_BaseStateUnmodified ==
    /\ Deref(heap, base_state) = base_before
    /\ heap[base_state] = NewState(0, 0, 0, 0, 0)[6]

C5_Witness ==
    /\ pc = "returned"
    /\ projection_years >= 1
    /\ base_before.intermediates # CalculatedIntermediariesContext
    /\ Deref(heap, current_state).cashflow_context # base_before.cashflow_context
    /\ Deref(heap, current_state).global_context # base_before.global_context

\* C6: after CAL-PIT-001 has succeeded for an entity, taxable_income is present
\* in that entity's tax_results, and in the projection's tax chain CAL-PIT-002
\* and CAL-PIT-004 called for an entity whose PAYG tax is stored do not return
\* the missing-prerequisite failure.
C6_PaygProvidesTaxableIncome ==
    /\ (Returned /\ call.cal_id = "CAL-PIT-001" /\ call.result.success) =>
           ~TaxResultAbsent(Deref(heap, CalledState), call.entity_id, "taxable_income")
    /\ (Returned /\ call.cal_id \in {"CAL-PIT-002", "CAL-PIT-004"}
           /\ ~TaxResultAbsent(call.pre, call.entity_id, "payg_tax")) =>
           call.result # TaxableIncomeMissing(call.entity_id)

\* C7: CAL-PIT-002 called for an entity whose taxable_income is absent from
\* tax_results returns (does not raise) success=False, value=None, no trace
\* entries and an error message that names CAL-PIT-001.
C7_MedicareMissingPrerequisite ==
    (Called /\ call.cal_id = "CAL-PIT-002"
        /\ TaxResultAbsent(call.pre, call.entity_id, "taxable_income")) =>
        /\ ~call.raised
        /\ call.result.success = FALSE
        /\ call.result.value = None
        /\ call.result.trace_entries = <<>>
        /\ Names(call.result.error_message, "CAL-PIT-001")

C7_Witness ==
    /\ Called
    /\ call.cal_id = "CAL-PIT-002"
    /\ ~TaxResultAbsent(call.pre, call.entity_id, "payg_tax")
    /\ TaxResultAbsent(call.pre, call.entity_id, "taxable_income")
    /\ ~call.raised

\* C8: CAL-PIT-005 called while PAYG tax, Medicare levy or offsets is absent
\* from the entity's tax_results returns success=False with a message naming a
\* prerequisite calculation, and computes no value.
C8_NetTaxMissingPrerequisite ==
    (Called /\ call.cal_id = "CAL-PIT-005"
        /\ \E key \in {"payg_tax", "medicare_levy", "tax_offsets"} :
              TaxResultAbsent(call.pre, call.entity_id, key)) =>
        /\ ~call.raised
        /\ call.result.success = FALSE
        /\ call.result.value = None
        /\ \E cal_id \in {"CAL-PIT-001", "CAL-PIT-002", "CAL-PIT-004"} :
              Names(call.result.error_message, cal_id)

\* C9: every handler call returns a CalculationResult to its caller (no
\* exception leaves the handler), and a failed result has value=None, no trace
\* entries and a non-empty error message.
C9_HandlersNeverRaise ==
    Called =>
        /\ ~call.raised
        /\ DOMAIN call.result = {"success", "value", "trace_entries", "error_message"}
        /\ ~call.result.success =>
              /\ call.result.value = None
              /\ call.result.trace_entries = <<>>
              /\ Len(call.result.error_message) > 0

C9_Witness ==
    /\ Returned
    /\ call.cal_id = "CAL-PIT-005"
    /\ call.entity_id = "ghost"
    /\ ~call.result.success
    /\ call.result.error_message[1] = "Error in"

\* C10: a handler call, successful or failed, leaves global_context,
\* entity_context, position_context and cashflow_context of the state as they
\* were before the call.
C10_HandlersWriteOnlyIntermediates ==
    Called =>
        \A f \in ContextFields \ {"intermediates"} :
            Deref(heap, CalledState)[f] = call.pre[f]

C10_Witness ==
    /\ Returned
    /\ call.cal_id = "CAL-PIT-001"
    /\ call.result.success
    /\ Deref(heap, CalledState).intermediates # call.pre.intermediates
    /\ ncalls = 2

\* the result bucket of intermediates a calculation stores into
Bucket(cal_id) ==
    IF cal_id \in {"CAL-PIT-001", "CAL-PIT-002", "CAL-PIT-004", "CAL-PIT-005"}
    THEN "tax_results"
    ELSE IF cal_id \in {"CAL-SUP-002", "CAL-SUP-003", "CAL-SUP-007", "CAL-SUP-008",
                        "CAL-SUP-009"}
    THEN "super_results"
    ELSE "property_results"

\* the result buckets of a state, without the trace log
StoredResults(state) ==
    [ f \in {"tax_results", "super_results", "property_results",
             "plan_level_results"} |-> state.intermediates[f] ]

\* C11: a successful handler call stores its result in the slot of its bucket
\* keyed by the entity_id it was called with, and leaves the slot of every
\* other entity in that bucket as it was.
C11_PerEntitySlot ==
    (Returned /\ call.result.success) =>
        LET bucket == Bucket(call.cal_id)
            pre == call.pre.intermediates[bucket]
            post == Deref(heap, CalledState).intermediates[bucket]
        IN  /\ call.entity_id \in DOMAIN post
            /\ \A other \in (EntityArgs \ {call.entity_id}) \cap DOMAIN pre :
                  other \in DOMAIN post /\ post[other] = pre[other]

\* C12: when a handler is called again with the same entity_id on the same
\* state, the second call returns the value the first returned and leaves every
\* stored result as the first call left it.
C12_RepeatedCallOverwrites ==
    [][ (pc = "direct" /\ Returned /\ call'.cal_id = call.cal_id
            /\ call'.entity_id = call.entity_id /\ ncalls' = ncalls + 1) =>
            /\ ~call'.raised
            /\ call'.result.success = call.result.success
            /\ call'.result.value = call.result.value
            /\ StoredResults(Deref(heap, base_state))'
                   = StoredResults(Deref(heap, base_state)) ]_vars

C12_Witness ==
    /\ Returned
    /\ ncalls = 2
    /\ call.cal_id = "CAL-PIT-001"
    /\ call.result.success
    /\ call.result.value # Some(Zero)
    /\ ~TaxResultAbsent(call.pre, call.entity_id, "payg_tax")
    /\ Len(call.pre.intermediates.trace_log) >= 1
    /\ LET last == call.pre.intermediates.trace_log[Len(call.pre.intermediates.trace_log)]
       IN  last.calc_id = "CAL-PIT-001" /\ last.entity_id = call.entity_id

\* C20: after every handler call the trace log as it was before the call is an
\* unchanged prefix of the trace log after it.
C20_TraceLogAppendOnly ==
    Called =>
        LET before == call.pre.intermediates.trace_log
            after == Deref(heap, CalledState).intermediates.trace_log
        IN  /\ Len(after) >= Len(before)
            /\ SubSeq(after, 1, Len(before)) = before

C20_Witness ==
    /\ Returned
    /\ call.result.success
    /\ Len(call.pre.intermediates.trace_log) >= 1
    /\ Len(Deref(heap, CalledState).intermediates.trace_log)
           = Len(call.pre.intermediates.trace_log) + 1

\* the handler calls one year's evaluation makes: both chains for every entity
CallsPerYear ==
    Len(base_before.cashflow_context.flows) * (Len(TaxChain) + Len(SuperChain))

\* C17: no handler failure aborts a projection: project_scenario never raises,
\* a failed call is followed by the rest of the loops, and at the return the
\* timeline has projection_years + 1 snapshots and every handler of every year
\* has been called.
C17_FailureDoesNotAbort ==
    /\ pc # "raised"
    /\ (Returned /\ ~call.result.success) => pc \in {"tax", "super", "snapshot"}
    /\ pc = "returned" =>
          /\ Len(timeline) = projection_years + 1
          /\ ncalls = (projection_years + 1) * CallsPerYear

C17_Witness ==
    /\ pc = "returned"
    /\ projection_years = MaxYears
    /\ ~rule_loader.available
    /\ Len(timeline) = MaxYears + 1
    /\ Len(base_before.cashflow_context.flows) = 2
    /\ ncalls = (MaxYears + 1) * CallsPerYear
    /\ \A k \in 1..Len(timeline) :
          heap[timeline[k].intermediaries].tax_results = EmptyDict

\* C13: get_calculation returns the handler the dispatch table holds under
\* cal_id, and for a cal_id the table does not hold get_calculation and
\* run_calculation raise a KeyError whose message lists every registered
\* identifier, run_calculation leaving the state as it was (no handler ran).
C13_LookupAgreesWithTable ==
    /\ registry_op.op = "get_calculation" =>
          IF registry_op.cal_id \in DOMAIN CALCULATION_REGISTRY
          THEN /\ ~registry_op.raised
               /\ registry_op.func = CALCULATION_REGISTRY[registry_op.cal_id]
          ELSE /\ registry_op.raised
               /\ registry_op.exc_type = "KeyError"
               /\ registry_op.exc[Len(registry_op.exc)] = DOMAIN CALCULATION_REGISTRY
    /\ (registry_op.op = "run_calculation"
            /\ registry_op.cal_id \notin DOMAIN CALCULATION_REGISTRY) =>
          /\ call.raised
          /\ call.exc[Len(call.exc)] = DOMAIN CALCULATION_REGISTRY
          /\ Deref(heap, base_state) = call.pre

C13_Witness ==
    /\ registry_op.op = "get_calculation"
    /\ registry_op.cal_id = "CAL-XXX-999"
    /\ registry_op.raised
    /\ "CAL-NEW-002" \in DOMAIN CALCULATION_REGISTRY
    /\ CALCULATION_REGISTRY["CAL-NEW-002"] = "run_CAL_PFL_104"

\* C14: register_calculation with a cal_id the table holds raises a ValueError
\* and leaves the table as it was; with a cal_id the table does not hold it
\* adds that one mapping and changes no other entry.
C14_RegisterDuplicateRejected ==
    registry_op.op = "register_calculation" =>
        IF registry_op.cal_id \in DOMAIN registry_op.pre
        THEN /\ registry_op.raised
             /\ registry_op.exc_type = "ValueError"
             /\ CALCULATION_REGISTRY = registry_op.pre
        ELSE /\ ~registry_op.raised
             /\ DOMAIN CALCULATION_REGISTRY
                    = DOMAIN registry_op.pre \cup {registry_op.cal_id}
             /\ CALCULATION_REGISTRY[registry_op.cal_id] = registry_op.func
             /\ \A k \in DOMAIN registry_op.pre :
                   CALCULATION_REGISTRY[k] = registry_op.pre[k]

C14_Witness ==
    /\ registry_op.op = "register_calculation"
    /\ registry_op.cal_id = "CAL-NEW-001"
    /\ registry_op.raised
    /\ registry_op.func # CALCULATION_REGISTRY["CAL-NEW-001"]

\* C15: the dict get_registered_calculations returns holds exactly the
\* mappings of the dispatch table, and an entry the caller adds to it, replaces
\* in it or removes from it changes neither the dispatch table nor what
\* get_calculation answers.
C15_ListingIsDefensiveCopy ==
    /\ [](registry_op.op = "get_registered_calculations" =>
              registered.items = CALCULATION_REGISTRY)
    /\ [][ registry_op'.op = "client_edit" =>
              /\ CALCULATION_REGISTRY' = CALCULATION_REGISTRY
              /\ \A cal_id \in LookupIds :
                    get_calculation(CALCULATION_REGISTRY', cal_id)
                        = get_calculation(CALCULATION_REGISTRY, cal_id) ]_vars

C15_Witness ==
    /\ registry_op.op = "client_edit"
    /\ "CAL-PIT-001" \notin DOMAIN registered.items
    /\ "CAL-NEW-001" \in DOMAIN registered.items
    /\ "CAL-PIT-001" \in DOMAIN CALCULATION_REGISTRY
    /\ "CAL-NEW-001" \notin DOMAIN CALCULATION_REGISTRY

\* C16: the dispatch table always holds the twelve identifiers it is built
\* with, each mapped to the handler it was built with.
C16_TwelveIdentifiersStay ==
    /\ Cardinality(DOMAIN InitialRegistry) = 12
    /\ \A cal_id \in DOMAIN InitialRegistry :
          /\ cal_id \in DOMAIN CALCULATION_REGISTRY
          /\ CALCULATION_REGISTRY[cal_id] = InitialRegistry[cal_id]

C16_Witness ==
    /\ registry_op.op = "register_calculation"
    /\ registry_op.cal_id = "CAL-PIT-001"
    /\ registry_op.func = "run_CAL_PFL_104"
    /\ registry_op.raised
    /\ "CAL-NEW-001" \in DOMAIN CALCULATION_REGISTRY

C19_RunsDoNotInterfere ==
    /\ [](pc = "returned" =>
            ProjectionOutput(heap, base_state, timeline)
                = RunAlone(base_before, projection_years))
    /\ [](parked.pc = "returned" =>
            ProjectionOutput(heap, parked.base_state, parked.timeline)
                = RunAlone(parked.base_before, parked.projection_years))
    /\ [][CALCULATION_REGISTRY' = CALCULATION_REGISTRY]_vars

C19_Witness ==
    /\ pc = "returned"
    /\ parked.pc = "returned"
    /\ parked.base_before # base_before
    /\ projection_years = MaxPairYears
    /\ active = 1
    /\ ProjectionOutput(heap, base_state, timeline)
           = RunAlone(base_before, projection_years)
    /\ ProjectionOutput(heap, parked.base_state, parked.timeline)
           = RunAlone(parked.base_before, parked.projection_years)

\* the handler calls of one per-year evaluation for the entities `keys`, in
\* the order they are to be made: for each entity the tax chain, and once
\* every entity has had it, for each entity the superannuation chain
YearCalls(keys) ==
    LET tax == <<"CAL-PIT-001", "CAL-PIT-002", "CAL-PIT-004", "CAL-PIT-005">>
        super == <<"CAL-SUP-002", "CAL-SUP-003", "CAL-SUP-007", "CAL-SUP-008",
                   "CAL-SUP-009">>
        n == Len(keys)
    IN  [ i \in 1..(9 * n) |->
            IF i <= 4 * n
            THEN [ cal_id |-> tax[((i - 1) % 4) + 1],
                   entity_id |-> keys[((i - 1) \div 4) + 1] ]
            ELSE [ cal_id |-> super[((i - 4 * n - 1) % 5) + 1],
                   entity_id |-> keys[((i - 4 * n - 1) \div 5) + 1] ] ]

\* C21: in every per-year evaluation each entity of cashflow_context.flows
\* gets each of the nine handlers exactly once, CAL-PIT-001, -002, -004, -005
\* before CAL-SUP-002, -003, -007, -008, -009, and no call is made for an
\* entity that is not in flows: the i-th call of a year is the i-th call of
\* YearCalls, and when the year's snapshot is taken all of them have been made.
C21_NineCallsPerEntityInOrder ==
    /\ [](pc = "snapshot" =>
            ncalls = (year_index + 1)
                       * Len(YearCalls(FlowKeys(
                             Deref(heap, current_state).cashflow_context.flows))))
    /\ [][ ncalls' # ncalls =>
             LET keys == FlowKeys(Deref(heap, current_state).cashflow_context.flows)
                 i == ncalls' - year_index * Len(YearCalls(keys))
             IN  /\ i \in 1..Len(YearCalls(keys))
                 /\ call'.cal_id = YearCalls(keys)[i].cal_id
                 /\ call'.entity_id = YearCalls(keys)[i].entity_id
                 /\ call'.entity_id \in {keys[k] : k \in 1..Len(keys)}
                 /\ call'.year_index = year_index ]_vars

C21_Witness ==
    /\ pc = "snapshot"
    /\ year_index = 1
    /\ FlowKeys(Deref(heap, current_state).cashflow_context.flows) = <<"e1", "e2">>
    /\ ncalls = 36
    /\ call.cal_id = "CAL-SUP-009"
    /\ call.entity_id = "e2"

\* C22: every transition Year(k) -> Year(k+1) gives every entity the salary
\* round_cent(round_cent(salary x (1 + inflation_rate)) x (1 + wage_growth_rate)),
\* with the rates of the state before the transition: inflation first, wage
\* growth on the inflated and rounded figure, each exactly once.
C22_SalaryGrowthFormula ==
    [][ (pc = "advance" /\ pc' # "advance") =>
          LET before == Deref(heap, current_state)
              after == Deref(heap', current_state')
              g == before.global_context
              old == before.cashflow_context.flows
              new == after.cashflow_context.flows
          IN  /\ FlowKeys(new) = FlowKeys(old)
              /\ \A i \in 1..Len(old) :
                    new[i][2].salary_wages_gross =
                        quantize_cent(DecMul(
                            quantize_cent(DecMul(old[i][2].salary_wages_gross,
                                                 RateDen + g.inflation_rate)),
                            RateDen + g.wage_growth_rate)) ]_vars

\* C23: every per-year evaluation starts from an empty
\* CalculatedIntermediariesContext that is a new object, the year's handler
\* calls are all that fills it (its trace log never holds more entries than
\* calls made so far in the year, each entry by a registered handler for an
\* entity of flows), and that object is what the year's snapshot carries:
\* nothing of an earlier year or of the caller's base_state is in it.
C23_YearStartsEmpty ==
    /\ [][ (pc = "reset" /\ pc' # "reset") =>
             /\ Deref(heap', current_state).intermediates
                    = CalculatedIntermediariesContext
             /\ heap'[current_state].intermediates
                    # heap[base_state].intermediates
             /\ \A k \in 1..Len(timeline) :
                    heap'[current_state].intermediates # timeline[k].intermediaries
         ]_vars
    /\ [](pc \in {"tax", "super", "snapshot"} =>
            LET state == Deref(heap, current_state)
                keys == FlowKeys(state.cashflow_context.flows)
                trace_log == state.intermediates.trace_log
            IN  /\ Len(trace_log) <= ncalls - year_index * 9 * Len(keys)
                /\ \A i \in 1..Len(trace_log) :
                      /\ trace_log[i].calc_id \in DOMAIN InitialRegistry
                      /\ trace_log[i].entity_id \in {keys[k] : k \in 1..Len(keys)})
    /\ [][ (pc = "snapshot" /\ pc' # "snapshot") =>
             /\ Len(timeline') = Len(timeline) + 1
             /\ timeline'[Len(timeline')].intermediaries
                    = heap[current_state].intermediates ]_vars

C23_Witness ==
    /\ pc = "snapshot"
    /\ year_index = 1
    /\ Len(timeline) = 1
    /\ base_before.intermediates.trace_log # <<>>
    /\ Len(base_before.cashflow_context.flows) = 2
    /\ Len(heap[timeline[1].intermediaries].trace_log) = 10
    /\ Len(Deref(heap, current_state).intermediates.trace_log) = 10

\* C24: every transition Year(k) -> Year(k+1) leaves the new working state's
\* trace log equal to the old one plus exactly one entry; that entry has
\* calc_id PROJECTION_ADVANCE and no entity, and its metadata holds the rates
\* of the state before the transition, from_year = that state's financial
\* year and to_year = from_year + 1.
C24_AdvanceIsRecorded ==
    [][ (pc = "advance" /\ pc' # "advance") =>
          LET before == Deref(heap, current_state)
              after == Deref(heap', current_state')
              g == before.global_context
              log == after.intermediates.trace_log
              entry == log[Len(log)]
          IN  /\ Len(log) = Len(before.intermediates.trace_log) + 1
              /\ SubSeq(log, 1, Len(log) - 1) = before.intermediates.trace_log
              /\ entry.calc_id = "PROJECTION_ADVANCE"
              /\ entry.entity_id = "None"
              /\ entry.metadata.from_year = g.financial_year
              /\ entry.metadata.to_year = entry.metadata.from_year + 1
              /\ entry.metadata.to_year = after.global_context.financial_year
              /\ entry.metadata.inflation_rate = g.inflation_rate
              /\ entry.metadata.wage_growth_rate = g.wage_growth_rate
              /\ entry.metadata.property_growth_rate = g.property_growth_rate
              /\ entry.metadata.equity_return_rate = g.equity_return_rate
              /\ \A i \in 1..(Len(log) - 1) : log[i].calc_id # "PROJECTION_ADVANCE"
      ]_vars

C24_Witness ==
    /\ pc = "reset"
    /\ year_index = 2
    /\ LET state == Deref(heap, current_state)
           log == state.intermediates.trace_log
       IN  /\ Len(log) >= 2
           /\ log[Len(log)].calc_id = "PROJECTION_ADVANCE"
           /\ log[Len(log)].metadata.from_year = 2026
           /\ log[Len(log)].metadata.to_year = 2027
           /\ log[Len(log)].metadata.inflation_rate = 25
           /\ log[Len(log)].metadata.wage_growth_rate = 35

\* C25: a handler call that succeeds appends exactly one trace entry to
\* intermediates.trace_log and returns that same entry as the only element of
\* trace_entries; the entry carries the CAL-ID of the handler and the entity
\* it was called for.  A call that fails returns trace_entries = [] and leaves
\* the trace log as it was.
C25_OneTraceEntryPerSuccess ==
    Returned =>
        LET before == call.pre.intermediates.trace_log
            after == Deref(heap, CalledState).intermediates.trace_log
            entries == call.result.trace_entries
        IN  IF call.result.success
            THEN /\ Len(entries) = 1
                 /\ after = Append(before, entries[1])
                 /\ entries[1].calc_id = call.cal_id
                 /\ entries[1].entity_id = call.entity_id
            ELSE /\ entries = <<>>
                 /\ after = before

C25_Witness ==
    /\ Returned
    /\ call.cal_id = "CAL-SUP-008"
    /\ call.entity_id = "e1"
    /\ call.result.success
    /\ Len(call.pre.intermediates.trace_log) = 1
    /\ Len(Deref(heap, CalledState).intermediates.trace_log) = 2
    /\ call.result.trace_entries[1].calc_id = "CAL-SUP-008"
    /\ Deref(heap, CalledState).intermediates.trace_log[2]
           = call.result.trace_entries[1]

\* C30: a handler call that returns success = False leaves the state as it
\* was before the call, in all five contexts: no result slot is created or
\* overwritten and no trace entry is appended before the failure.
C30_FailureLeavesStateUnchanged ==
    (Returned /\ ~call.result.success) =>
        Deref(heap, CalledState) = call.pre

C30_Witness ==
    /\ Returned
    /\ ~call.result.success
    /\ call.cal_id = "CAL-PIT-005"
    /\ call.entity_id = "e1"
    /\ "e1" \in DOMAIN call.pre.intermediates.tax_results
    /\ "payg_tax" \in DOMAIN call.pre.intermediates.tax_results["e1"]
    /\ Len(call.pre.intermediates.trace_log) >= 1
    /\ Deref(heap, CalledState) = call.pre

\* C28: a projection never changes the position context.  While the run
\* lasts, and when it returns, every snapshot's position_snapshot has the
\* value of base_state.position_context; and a transition Year(k) -> Year(k+1)
\* changes nothing in the working state but global_context.financial_year,
\* the salary_wages_gross of the cashflows and the trace log.
C28_PositionNeverChanges ==
    /\ [][ pc # "returned" =>
             \A k \in 1..Len(timeline') :
                 heap'[timeline'[k].position_snapshot]
                     = base_before.position_context ]_vars
    /\ [][ (pc = "advance" /\ pc' # "advance") =>
             LET before == Deref(heap, current_state)
                 after == Deref(heap', current_state')
                 old == before.cashflow_context.flows
                 new == after.cashflow_context.flows
             IN  /\ after.position_context = before.position_context
                 /\ after.entity_context = before.entity_context
                 /\ after.global_context =
                        [before.global_context EXCEPT
                            !.financial_year = after.global_context.financial_year]
                 /\ after.cashflow_context =
                        [before.cashflow_context EXCEPT !.flows = new]
                 /\ FlowKeys(new) = FlowKeys(old)
                 /\ \A i \in 1..Len(old) :
                        new[i][2] = [old[i][2] EXCEPT !.salary_wages_gross =
                                        new[i][2].salary_wages_gross]
                 /\ after.intermediates =
                        [before.intermediates EXCEPT
                            !.trace_log = after.intermediates.trace_log] ]_vars

C28_Witness ==
    /\ pc = "returned"
    /\ projection_years = MaxYears
    /\ Len(timeline) = MaxYears + 1
    /\ base_before.global_context.property_growth_rate # 0
    /\ base_before.global_context.equity_return_rate # 0
    /\ \A k \in 1..Len(timeline) :
          heap[timeline[k].position_snapshot] = base_before.position_context
    /\ Deref(heap, current_state).position_context = base_before.position_context
    /\ Deref(heap, current_state).cashflow_context # base_before.cashflow_context

\* C29: the PROJECTION_ADVANCE entry written on the way to year k+1 is in the
\* working state's trace log when year k+1's evaluation begins and is gone
\* after the reset of intermediates, so no snapshot of the timeline ever has
\* an entry with calc_id PROJECTION_ADVANCE in its trace log.
C29_AdvanceEntryNeverInSnapshot ==
    /\ [](\A k \in 1..Len(timeline) :
            \A i \in 1..Len(heap[timeline[k].intermediaries].trace_log) :
                heap[timeline[k].intermediaries].trace_log[i].calc_id
                    # "PROJECTION_ADVANCE")
    /\ [][ (pc = "reset" /\ pc' # "reset" /\ year_index >= 1) =>
             LET before == Deref(heap, current_state).intermediates.trace_log
                 after == Deref(heap', current_state).intermediates.trace_log
             IN  /\ Len(before) >= 1
                 /\ before[Len(before)].calc_id = "PROJECTION_ADVANCE"
                 /\ after = <<>> ]_vars

C29_Witness ==
    /\ pc = "returned"
    /\ projection_years = MaxYears
    /\ Len(timeline) = MaxYears + 1
    /\ \A k \in 1..Len(timeline) :
          /\ Len(heap[timeline[k].intermediaries].trace_log) >= 1
          /\ \A i \in 1..Len(heap[timeline[k].intermediaries].trace_log) :
                heap[timeline[k].intermediaries].trace_log[i].calc_id
                    # "PROJECTION_ADVANCE"

-----------------------------------------------------------------------------
(* The two pure functions of personal income tax, applied on their own *)

\* taxable incomes run over -$25, $0, $25, ... up to MaxIncomeSteps * $25
MaxIncomeSteps == 26

\* the incomes the functions are applied to: the grid, and the incomes one
\* cent around the thresholds of RuleValues
IncomeInputs ==
    { k * Dollars(25, 0) : k \in (0 - 1)..MaxIncomeSteps }
        \cup { Dollars(0, 1), Dollars(182, 0), Dollars(182, 1), Dollars(374, 99),
               Dollars(375, 1), Dollars(455, 0), Dollars(515, 0), Dollars(515, 1) }

\* every order a rule file can list the brackets of `brackets` in
Orders(brackets) ==
    { [i \in 1..Len(brackets) |-> brackets[p[i]]] :
        p \in Permutations(1..Len(brackets)) }

\* bracket lists get_tax_brackets can return: three, two and one bracket
\* covering [0, inf) in every order, no bracket at all, a list with a gap
\* between $182 and $450, and a list whose first bracket is empty (max 0)
BracketInputs ==
    Orders(RuleValues.brackets)
        \cup Orders(<< [min |-> Zero, max |-> Some(Dollars(182, 0)), rate |-> 0],
                       [min |-> Dollars(182, 0), max |-> None, rate |-> 190] >>)
        \cup { << [min |-> Zero, max |-> None, rate |-> 100] >>,
               << >>,
               << [min |-> Zero, max |-> Some(Dollars(182, 0)), rate |-> 0],
                  [min |-> Dollars(450, 0), max |-> None, rate |-> 325] >>,
               << [min |-> Zero, max |-> Some(Zero), rate |-> 100],
                  [min |-> Zero, max |-> None, rate |-> 200] >> }

\* LITO parameters get_lito_parameters can return, all with
\* income_limit <= phase_out_start
LitoInputs ==
    { [RuleValues.lito_parameters EXCEPT
          !.income_limit = income_limit,
          !.phase_out_start = phase_out_start,
          !.phase_out_rate = phase_out_rate] :
        income_limit \in { Dollars(300, 0), Dollars(375, 0) },
        phase_out_start \in { Dollars(375, 0), Dollars(450, 0) },
        phase_out_rate \in { 0, 50, 100 } }

\* the rule files are read once; the functions are then applied to incomes
InitFn ==
    /\ heap = << >>
    /\ base_state = 0
    /\ base_before = None
    /\ projection_years = 0
    /\ year_index = 0
    /\ current_state = 0
    /\ timeline = << >>
    /\ pc = "function"
    /\ entity_idx = 1
    /\ chain_idx = 1
    /\ \E tax_brackets \in BracketInputs, lito_params \in LitoInputs :
          rule_loader = [available |-> TRUE,
                         rules |-> [RuleValues EXCEPT
                                       !.brackets = tax_brackets,
                                       !.lito_parameters = lito_params]]
    /\ CALCULATION_REGISTRY = InitialRegistry
    /\ call = NoCall
    /\ ncalls = 0
    /\ registry_op = NoOp
    /\ registered = NoDict
    /\ active = 1
    /\ parked = NoRun

\* tax_payable = _calculate_progressive_tax(taxable_income, tax_brackets)
CalculateProgressiveTax ==
    /\ pc = "function"
    /\ \E taxable_income \in IncomeInputs :
          call' = [cal_id |-> "_calculate_progressive_tax",
                   taxable_income |-> taxable_income,
                   raised |-> FALSE,
                   result |-> Some(_calculate_progressive_tax(
                                       taxable_income, rule_loader.rules.brackets))]
    /\ UNCHANGED <<heap, base_state, base_before, projection_years, year_index,
                   current_state, timeline, pc, entity_idx, chain_idx, rule_loader,
                   CALCULATION_REGISTRY, ncalls, client_vars, scheduler_vars>>

\* lito_amount = _calculate_lito(taxable_income); the division by a zero
\* phase_out_rate raises decimal.DivisionByZero
CalculateLito ==
    /\ pc = "function"
    /\ \E taxable_income \in IncomeInputs :
          LET lito_params == rule_loader.rules.lito_parameters
              raised == LitoDividesByZero(taxable_income, lito_params)
          IN  call' = [cal_id |-> "_calculate_lito",
                       taxable_income |-> taxable_income,
                       raised |-> raised,
                       result |-> IF raised THEN None
                                  ELSE Some(_calculate_lito(taxable_income, lito_params))]
    /\ UNCHANGED <<heap, base_state, base_before, projection_years, year_index,
                   current_state, timeline, pc, entity_idx, chain_idx, rule_loader,
                   CALCULATION_REGISTRY, ncalls, client_vars, scheduler_vars>>

NextFn ==
    \/ CalculateProgressiveTax
    \/ CalculateLito

SpecFn == InitFn /\ [][NextFn]_vars

\* the brackets, taken in some order, start at 0, each end where the next one
\* begins, none is empty, and the last one has no upper end
ContiguousFromZero(brackets) ==
    /\ brackets # << >>
    /\ \E o \in Orders(brackets) :
          /\ o[1].min = Zero
          /\ o[Len(o)].max = None
          /\ \A i \in 1..(Len(o) - 1) :
                /\ o[i].max # None
                /\ o[i].min < o[i].max[1]
                /\ o[i].max[1] = o[i + 1].min

\* sum over the brackets from bracket i on, in the order given, of
\* rate * max(0, min(income, bracket_max) - bracket_min)
RECURSIVE BracketSum(_, _, _)
BracketSum(income, brackets, i) ==
    IF i > Len(brackets) THEN Zero
    ELSE LET b == brackets[i]
             upto == IF b.max = None THEN income ELSE Min2(income, b.max[1])
         IN  DecMul(Max2(Zero, upto - b.min), b.rate)
                 + BracketSum(income, brackets, i + 1)

C27_LitoPiecewise ==
    (/\ call.cal_id = "_calculate_lito"
     /\ ~call.raised
     /\ call.taxable_income >= 0
     /\ rule_loader.rules.lito_parameters.income_limit
            <= rule_loader.rules.lito_parameters.phase_out_start) =>
        LET income == call.taxable_income
            p == rule_loader.rules.lito_parameters
            offset == call.result[1]
        IN  /\ Zero <= offset
            /\ offset <= p.max_offset
            /\ income <= p.income_limit => offset = p.max_offset
            /\ income > p.phase_out_start =>
                  offset = Max2(Zero, p.max_offset
                                        - DecMul(income - p.phase_out_start, p.phase_out_rate))
            /\ (/\ p.phase_out_rate > 0
                /\ income > p.phase_out_start + DecDiv(p.max_offset, p.phase_out_rate)) =>
                  offset = Zero

====
